---- MODULE Spec2Model ----
(***************************************************************************)
(* Monetary core of tinselapp-backend: the balance rows, the pausable      *)
(* chat-time sessions (MonetizationService), the per-message content       *)
(* charges and the escrow service requests (ServiceRequestService).        *)
(*                                                                         *)
(* Every service method is a sequence of awaited Prisma calls.  A call is  *)
(* modelled as a process that moves through the method's awaits: the       *)
(* reads the method makes before it opens its transaction are one step     *)
(* (the values it read are kept in call[p]), and the transaction is a      *)
(* later step, so that other calls can commit in between.  The store is    *)
(* PostgreSQL at its default READ COMMITTED level: `increment` and         *)
(* `decrement` are relative updates applied to the committed row, a        *)
(* transaction's writes become visible together at commit, and a unique    *)
(* index rejects the second insert of a key.                               *)
(*                                                                         *)
(* Time is counted in whole minutes and money in whole units; the tiers    *)
(* of the catalog have a price that is a multiple of the duration, so the  *)
(* double-precision arithmetic of the code is exact on every value used.   *)
(***************************************************************************)
EXTENDS Integers, Sequences, FiniteSets, TLC

\* ---------------------------------------------------------------- bounds
MaxMinutes == 3        \* the session clock runs from 0 to MaxMinutes
MaxSessions == 2       \* chat_sessions rows created in one behaviour
MaxRequests == 2       \* service_requests rows created in one behaviour
MaxDayTicks == 2       \* clock advances (of DayStep days) in the escrow runs
MaxCalls == 3          \* service calls started in one behaviour
DayStep == 4           \* the escrow clock advances DayStep days at a time
MaxSeconds == 3        \* durationSeconds compared in the cost functions

Users == {"u1", "u2", "u3"}
Procs == {"p1", "p2"}
MessageIds == {"m1", "m2"}

\* ------------------------------------------------------- program constants
EXPIRATION_DAYS == 7
NullTime == -1         \* a NULL timestamp column
MinutesPerDay == 24 * 60

VARIABLES
  now,                       \* the wall clock (new Date()), in minutes
  userMonetizationSettings,  \* user_monetization_settings + chat_time_tiers
  userBalance,               \* user_balances, one row per user (or none)
  chatSession,               \* chat_sessions, in creation order; id = index
                             \* (pausedAt, which nothing reads, is left out)
  contentCharge,             \* content_charges
  serviceRequest,            \* service_requests, in creation order; id = index
  pendingBalance,            \* pending_balances (the holds); id = index
  serviceTransaction,        \* service_transactions (the ledger), append only
  serviceSession,            \* service_sessions
  serviceNotification,       \* service_notifications, append only
  rowLock,                   \* service_requests rows locked by an open transaction
  call,                      \* per process: the method it is in, what it read
  returned,                  \* the call that ended last and how it ended
  calls,                     \* number of service calls started so far
  audit,                     \* history: what each committed step paid out
  payment,                   \* payments, one row per checkoutRequestId
  paymentCallback            \* payment_callbacks

vars == <<now, userMonetizationSettings, userBalance, chatSession,
          contentCharge, serviceRequest, pendingBalance, serviceTransaction,
          serviceSession, serviceNotification, rowLock, call, returned, calls, audit,
          payment, paymentCallback>>

dbVars == <<userBalance, chatSession, contentCharge, serviceRequest,
            pendingBalance, serviceTransaction, serviceSession,
            serviceNotification, rowLock>>

paymentVars == <<payment, paymentCallback>>

escrowVars == <<serviceRequest, pendingBalance, serviceTransaction,
                serviceSession, serviceNotification, rowLock>>

\* ------------------------------------------------------------- the catalog
NoSettings ==
  [exists |-> FALSE, isEnabled |-> FALSE, chatTimeTiers |-> {},
   monetizeVoiceNotes |-> FALSE, voiceNotePrice |-> 0,
   monetizeImages |-> FALSE, imagePrice |-> 0,
   monetizeVideos |-> FALSE, videoPrice |-> 0]

\* u1 and u2 sell chat time (2 minutes for 4); u2 also bills video per
\* second and images per item; u3 never set monetization up.
Catalog ==
  [u \in Users |->
     CASE u = "u1" -> [NoSettings EXCEPT !.exists = TRUE, !.isEnabled = TRUE,
                         !.chatTimeTiers =
                            {[durationMinutes |-> 2, price |-> 4, isActive |-> TRUE]}]
       [] u = "u2" -> [NoSettings EXCEPT !.exists = TRUE, !.isEnabled = TRUE,
                         !.chatTimeTiers =
                            {[durationMinutes |-> 2, price |-> 4, isActive |-> TRUE]},
                         !.monetizeVideos = TRUE, !.videoPrice = 2,
                         !.monetizeImages = TRUE, !.imagePrice = 3]
       [] OTHER -> NoSettings]

\* ---------------------------------------------------------- balance rows
NoBalance ==
  [exists |-> FALSE, availableBalance |-> 0, pendingBalance |-> 0,
   totalEarnings |-> 0, totalSpent |-> 0]

\* a debit that records the spending and leaves the balance
DebitMutant(ub, u, amount) ==
  [ub EXCEPT ![u].totalSpent = @ + amount]

\* tx.userBalance.update({ availableBalance: {decrement}, totalSpent: {increment} })
Debit(ub, u, amount) ==
  [ub EXCEPT ![u].availableBalance = @ - amount,
             ![u].totalSpent = @ + amount]

\* an upsert whose create branch opens the row empty
CreditUpsertMutant(ub, u, amount) ==
  IF ub[u].exists
    THEN [ub EXCEPT ![u].availableBalance = @ + amount,
                    ![u].totalEarnings = @ + amount]
    ELSE [ub EXCEPT ![u] = [NoBalance EXCEPT !.exists = TRUE]]

\* tx.userBalance.upsert({ update: {increment ...}, create: {...} })
CreditUpsert(ub, u, amount) ==
  IF ub[u].exists
    THEN [ub EXCEPT ![u].availableBalance = @ + amount,
                    ![u].totalEarnings = @ + amount]
    ELSE [ub EXCEPT ![u] = [NoBalance EXCEPT !.exists = TRUE,
                                             !.availableBalance = amount,
                                             !.totalEarnings = amount]]

\* ------------------------------------------------------------- processes
IdleCall == [pc |-> "idle"]

IsIdle(p) == call[p].pc = "idle"

\* a new call arrives at process p
Start(p) == IsIdle(p) /\ calls < MaxCalls /\ calls' = calls + 1

\* the call of process p returns (or throws): `returned` keeps the outcome
\* of the call that ended last
Return(p, op, outcome) ==
  /\ call' = [call EXCEPT ![p] = IdleCall]
  /\ returned' = [op |-> op, outcome |-> outcome]

\* the call of process p goes on to its next await
Continue(p, next) ==
  /\ call' = [call EXCEPT ![p] = next]
  /\ UNCHANGED returned

\* ------------------------------------------------------------------ audit
NoAudit ==
  [sessionRefunds |-> <<>>,   \* per chat session: refunds paid, in order
   holdPayouts |-> <<>>,      \* per hold: payouts (release or refund), in order
   chargeMoves |-> [m \in MessageIds |-> 0], \* per messageId: fund movements
   ledgerActual |-> <<>>]     \* per ledger entry: the balances around it

\* ------------------------------------------------------------------- Init
\* the payments rows that mpesaPayment has created: every STK push leaves a
\* PENDING row with the user who pays; k3 pays for u3, who has no balance row
CheckoutRequestIds == {"k1", "k2", "k3"}

Payments ==
  [k \in CheckoutRequestIds |->
     [userId |-> IF k = "k3" THEN "u3" ELSE "u1", status |-> "PENDING"]]

Init ==
  /\ now = 0
  /\ userMonetizationSettings = Catalog
  /\ payment = Payments
  /\ paymentCallback = <<>>
  /\ userBalance =
       [u \in Users |->
          IF u = "u1"
            THEN [NoBalance EXCEPT !.exists = TRUE, !.availableBalance = 8]
            ELSE NoBalance]
  /\ chatSession = <<>>
  /\ contentCharge = {}
  /\ serviceRequest = <<>>
  /\ pendingBalance = <<>>
  /\ serviceTransaction = <<>>
  /\ serviceSession = {}
  /\ serviceNotification = <<>>
  /\ rowLock = {}
  /\ call = [p \in Procs |-> IdleCall]
  /\ returned = [op |-> "none", outcome |-> "none"]
  /\ calls = 0
  /\ audit = NoAudit

\* ============================================================ chat sessions
\* session.lastActiveAt || session.resumedAt || session.startTime
LastActive(s) ==
  IF s.lastActiveAt # NullTime THEN s.lastActiveAt
  ELSE IF s.resumedAt # NullTime THEN s.resumedAt
  ELSE s.startTime

Max(a, b) == IF a > b THEN a ELSE b
Min(a, b) == IF a < b THEN a ELSE b

\* formatChatSessionInfo: the remaining minutes it reports
Remaining(session) ==
  IF session.isPaused
    THEN Max(0, session.durationMinutes - session.usedMinutes)
    ELSE Max(0, session.durationMinutes
                  - (session.usedMinutes + (now - LastActive(session))))

SessionIds == 1..Len(chatSession)

\* purchases that passed their checks and have not committed yet
PurchasesInFlight == Cardinality({p \in Procs : call[p].pc = "purchase_tx"})

\* prisma.chatSession.findFirst({ buyerId, sellerId, isActive: true,
\* isCancelled: false }): no orderBy, so any matching row may come back.
ExistingSessionRows(buyerId, sellerId) ==
  {i \in SessionIds : /\ chatSession[i].buyerId = buyerId
                      /\ chatSession[i].sellerId = sellerId
                      /\ chatSession[i].isActive
                      /\ ~chatSession[i].isCancelled}

FindTier(settings, durationMinutes) ==
  {t \in settings.chatTimeTiers : t.durationMinutes = durationMinutes /\ t.isActive}

\* purchaseChatTime, up to the opening of its transaction: the settings, the
\* tier, the existing-session check and the balance check.
PurchaseBegin(p, buyerId, sellerId, durationMinutes) ==
  /\ Start(p)
  /\ Len(chatSession) + PurchasesInFlight < MaxSessions
  /\ LET settings == userMonetizationSettings[sellerId]
         tiers == FindTier(settings, durationMinutes)
         rows == ExistingSessionRows(buyerId, sellerId)
         buyerBalance == userBalance[buyerId]
     IN IF ~settings.exists \/ ~settings.isEnabled \/ tiers = {}
          THEN Return(p, "purchaseChatTime", "BadRequest")
        ELSE \E tier \in tiers :
          \/ /\ \E i \in rows : chatSession[i].usedMinutes < chatSession[i].durationMinutes
             /\ Return(p, "purchaseChatTime", "SessionConflict")
          \/ /\ \/ rows = {}
                \/ \E i \in rows : ~(chatSession[i].usedMinutes < chatSession[i].durationMinutes)
             /\ IF ~buyerBalance.exists \/ buyerBalance.availableBalance < tier.price
                  THEN Return(p, "purchaseChatTime", "InsufficientFunds")
                  ELSE Continue(p,
                         [pc |-> "purchase_tx", buyerId |-> buyerId,
                          sellerId |-> sellerId,
                          durationMinutes |-> tier.durationMinutes,
                          price |-> tier.price])
  /\ UNCHANGED <<now, userMonetizationSettings, paymentVars, dbVars, audit>>

NewChatSession(c) ==
  [buyerId |-> c.buyerId, sellerId |-> c.sellerId,
   durationMinutes |-> c.durationMinutes, price |-> c.price,
   startTime |-> now, endTime |-> now, usedMinutes |-> 0,
   isPaused |-> TRUE, isActive |-> TRUE, isCancelled |-> FALSE,
   lastActiveAt |-> NullTime, resumedAt |-> NullTime]

\* the transaction of purchaseChatTime: debit the buyer, credit (upsert) the
\* seller, insert the session.  No service_transactions row is written.
PurchaseTx(p) ==
  /\ call[p].pc = "purchase_tx"
  /\ LET c == call[p]
     IN /\ userBalance' = CreditUpsert(Debit(userBalance, c.buyerId, c.price),
                                       c.sellerId, c.price)
        /\ chatSession' = Append(chatSession, NewChatSession(c))
        /\ audit' = [audit EXCEPT !.sessionRefunds = Append(@, <<>>)]
  /\ Return(p, "purchaseChatTime", "ok")
  /\ UNCHANGED <<now, userMonetizationSettings, paymentVars, contentCharge, escrowVars, calls>>

\* activateSession with an endTime that ignores the minutes already used
ActivateReadMutant(p, sessionId) ==
  /\ \/ Start(p)
     \/ /\ call[p].pc = "touch_activate" /\ call[p].sessionId = sessionId
        /\ UNCHANGED calls
  /\ sessionId \in SessionIds
  /\ LET session == chatSession[sessionId]
         remainingMinutes == session.durationMinutes - session.usedMinutes
     IN IF ~session.isActive \/ session.isCancelled
          THEN Return(p, "activateSession", "NotAvailable")
        ELSE IF remainingMinutes <= 0
          THEN Return(p, "activateSession", "SessionExpired")
        ELSE Continue(p,
               [pc |-> "activate_update", sessionId |-> sessionId,
                at |-> now, endTime |-> now + session.durationMinutes])
  /\ UNCHANGED <<now, userMonetizationSettings, paymentVars, dbVars, audit>>

\* activateSession: findUnique, the guards, `now`, the new endTime.
ActivateRead(p, sessionId) ==
  /\ \/ Start(p)
     \/ /\ call[p].pc = "touch_activate" /\ call[p].sessionId = sessionId
        /\ UNCHANGED calls
  /\ sessionId \in SessionIds
  /\ LET session == chatSession[sessionId]
         remainingMinutes == session.durationMinutes - session.usedMinutes
     IN IF ~session.isActive \/ session.isCancelled
          THEN Return(p, "activateSession", "NotAvailable")
        ELSE IF remainingMinutes <= 0
          THEN Return(p, "activateSession", "SessionExpired")
        ELSE Continue(p,
               [pc |-> "activate_update", sessionId |-> sessionId,
                at |-> now, endTime |-> now + remainingMinutes])
  /\ UNCHANGED <<now, userMonetizationSettings, paymentVars, dbVars, audit>>

\* activateSession: prisma.chatSession.update
ActivateUpdate(p) ==
  /\ call[p].pc = "activate_update"
  /\ LET c == call[p]
     IN chatSession' = [chatSession EXCEPT ![c.sessionId] =
          [@ EXCEPT !.isPaused = FALSE, !.resumedAt = c.at,
                    !.lastActiveAt = c.at, !.endTime = c.endTime]]
  /\ Return(p, "activateSession", "ok")
  /\ UNCHANGED <<now, userMonetizationSettings, paymentVars, userBalance, contentCharge,
                 escrowVars, calls, audit>>

\* pauseSession with a write before the "already paused" error
PauseReadMutant(p, sessionId, userId) ==
  /\ Start(p)
  /\ sessionId \in SessionIds
  /\ LET session == chatSession[sessionId]
         minutesUsed == Max(0, now - LastActive(session))
     IN IF session.buyerId # userId /\ session.sellerId # userId
          THEN Return(p, "pauseSession", "Forbidden") /\ UNCHANGED dbVars
        ELSE IF session.isPaused
          THEN /\ Return(p, "pauseSession", "AlreadyPaused")
               /\ chatSession' = [chatSession EXCEPT ![sessionId].isActive = FALSE]
               /\ UNCHANGED <<userBalance, contentCharge, escrowVars>>
        ELSE /\ Continue(p,
                  [pc |-> "pause_update", sessionId |-> sessionId,
                   totalUsed |-> session.usedMinutes + minutesUsed])
             /\ UNCHANGED dbVars
  /\ UNCHANGED <<now, userMonetizationSettings, paymentVars, audit>>

\* pauseSession: findUnique, the guards, the elapsed time.
PauseRead(p, sessionId, userId) ==
  /\ Start(p)
  /\ sessionId \in SessionIds
  /\ LET session == chatSession[sessionId]
         minutesUsed == Max(0, now - LastActive(session))
     IN IF session.buyerId # userId /\ session.sellerId # userId
          THEN Return(p, "pauseSession", "Forbidden")
        ELSE IF session.isPaused
          THEN Return(p, "pauseSession", "AlreadyPaused")
        ELSE Continue(p,
               [pc |-> "pause_update", sessionId |-> sessionId,
                totalUsed |-> session.usedMinutes + minutesUsed])
  /\ UNCHANGED <<now, userMonetizationSettings, paymentVars, dbVars, audit>>

\* pauseSession: prisma.chatSession.update
PauseUpdate(p) ==
  /\ call[p].pc = "pause_update"
  /\ LET c == call[p]
     IN chatSession' = [chatSession EXCEPT ![c.sessionId] =
          [@ EXCEPT !.isPaused = TRUE, !.usedMinutes = c.totalUsed]]
  /\ Return(p, "pauseSession", "ok")
  /\ UNCHANGED <<now, userMonetizationSettings, paymentVars, userBalance, contentCharge,
                 escrowVars, calls, audit>>

\* updateSessionActivity: findUnique and the branch taken.
TouchRead(p, sessionId) ==
  /\ Start(p)
  /\ sessionId \in SessionIds
  /\ LET session == chatSession[sessionId]
         minutesUsed == Min(session.durationMinutes - session.usedMinutes,
                            session.endTime - LastActive(session))
     IN IF session.isPaused
          THEN Continue(p,
                 [pc |-> "touch_activate", sessionId |-> sessionId])
        ELSE IF now > session.endTime
          THEN Continue(p,
                 [pc |-> "touch_expire", sessionId |-> sessionId,
                  totalUsed |-> session.usedMinutes + minutesUsed])
        ELSE Continue(p,
                 [pc |-> "touch_update", sessionId |-> sessionId, at |-> now])
  /\ UNCHANGED <<now, userMonetizationSettings, paymentVars, dbVars, audit>>

\* updateSessionActivity, now > endTime: finalize and throw.
TouchExpire(p) ==
  /\ call[p].pc = "touch_expire"
  /\ LET c == call[p]
     IN chatSession' = [chatSession EXCEPT ![c.sessionId] =
          [@ EXCEPT !.isActive = FALSE, !.usedMinutes = c.totalUsed,
                    !.isPaused = TRUE]]
  /\ Return(p, "updateSessionActivity", "SessionExpired")
  /\ UNCHANGED <<now, userMonetizationSettings, paymentVars, userBalance, contentCharge,
                 escrowVars, calls, audit>>

\* updateSessionActivity, still running: lastActiveAt = now.
TouchUpdate(p) ==
  /\ call[p].pc = "touch_update"
  /\ LET c == call[p]
     IN chatSession' = [chatSession EXCEPT ![c.sessionId] =
          [@ EXCEPT !.lastActiveAt = c.at]]
  /\ Return(p, "updateSessionActivity", "ok")
  /\ UNCHANGED <<now, userMonetizationSettings, paymentVars, userBalance, contentCharge,
                 escrowVars, calls, audit>>

\* cancelSession: the time used, with the running interval when not paused.
CancelTotalUsed(session, at) ==
  IF session.isPaused THEN session.usedMinutes
  ELSE session.usedMinutes + (at - LastActive(session))

RemainingMinutes(session, at) ==
  Max(0, session.durationMinutes - CancelTotalUsed(session, at))

RefundAmountMutant(session, at) ==
  (session.price \div session.durationMinutes)
     * Max(0, session.durationMinutes - session.usedMinutes)

\* (session.price / session.durationMinutes) * remainingMinutes
RefundAmount(session, at) ==
  (session.price \div session.durationMinutes) * RemainingMinutes(session, at)

\* cancelSession without the test of the caller
CancelBeginMutant(p, sessionId, userId) ==
  /\ Start(p)
  /\ sessionId \in SessionIds
  /\ LET session == chatSession[sessionId]
     IN IF ~session.isActive
          THEN Return(p, "cancelSession", "NotActive")
        ELSE Continue(p,
               [pc |-> "cancel_tx", sessionId |-> sessionId, at |-> now,
                session |-> session])
  /\ UNCHANGED <<now, userMonetizationSettings, paymentVars, dbVars, audit>>

\* cancelSession, up to the opening of its transaction: the row it read and
\* the `now` it took.
CancelBegin(p, sessionId, userId) ==
  /\ Start(p)
  /\ sessionId \in SessionIds
  /\ LET session == chatSession[sessionId]
     IN IF session.buyerId # userId /\ session.sellerId # userId
          THEN Return(p, "cancelSession", "Forbidden")
        ELSE IF ~session.isActive
          THEN Return(p, "cancelSession", "NotActive")
        ELSE Continue(p,
               [pc |-> "cancel_tx", sessionId |-> sessionId, at |-> now,
                session |-> session])
  /\ UNCHANGED <<now, userMonetizationSettings, paymentVars, dbVars, audit>>

\* tx.userBalance.update of the buyer: available up, totalSpent down
RefundBuyer(ub, u, amount) ==
  [ub EXCEPT ![u].availableBalance = @ + amount, ![u].totalSpent = @ - amount]

\* a refund that is not taken from the seller's available balance
ClawBackSellerMutant(ub, u, amount) ==
  [ub EXCEPT ![u].totalEarnings = @ - amount]

\* tx.userBalance.update of the seller: available down, totalEarnings down,
\* whatever the seller's balance is
ClawBackSeller(ub, u, amount) ==
  [ub EXCEPT ![u].availableBalance = @ - amount, ![u].totalEarnings = @ - amount]

\* the transaction of cancelSession, with the totalUsed and the refundAmount
\* computed from the row read before it.  No service_transactions row is
\* written.
CancelTx(p) ==
  /\ call[p].pc = "cancel_tx"
  /\ LET c == call[p]
         totalUsed == CancelTotalUsed(c.session, c.at)
         refundAmount == RefundAmount(c.session, c.at)
     IN /\ chatSession' = [chatSession EXCEPT ![c.sessionId] =
             [@ EXCEPT !.isActive = FALSE, !.isCancelled = TRUE,
                       !.usedMinutes = totalUsed, !.isPaused = TRUE]]
        /\ userBalance' =
             IF refundAmount > 0
               THEN ClawBackSeller(RefundBuyer(userBalance, c.session.buyerId,
                                               refundAmount),
                                   c.session.sellerId, refundAmount)
               ELSE userBalance
        /\ audit' = [audit EXCEPT !.sessionRefunds[c.sessionId] =
                                     Append(@, refundAmount)]
  /\ Return(p, "cancelSession", "ok")
  /\ UNCHANGED <<now, userMonetizationSettings, paymentVars, contentCharge, escrowVars, calls>>

\* a minute passes
Tick ==
  /\ now < MaxMinutes
  /\ now' = now + 1
  /\ UNCHANGED <<userMonetizationSettings, paymentVars, dbVars, call, returned, calls, audit>>

Purchase == \E p \in Procs, b \in Users, s \in Users :
               \E d \in {2} : PurchaseBegin(p, b, s, d)
PurchaseCommit == \E p \in Procs : PurchaseTx(p)
Activate == \E p \in Procs, i \in SessionIds : ActivateRead(p, i)
ActivateCommit == \E p \in Procs : ActivateUpdate(p)
Pause == \E p \in Procs, i \in SessionIds, u \in Users : PauseRead(p, i, u)
PauseCommit == \E p \in Procs : PauseUpdate(p)
Touch == \E p \in Procs, i \in SessionIds : TouchRead(p, i)
TouchExpireCommit == \E p \in Procs : TouchExpire(p)
TouchCommit == \E p \in Procs : TouchUpdate(p)
Cancel == \E p \in Procs, i \in SessionIds, u \in Users : CancelBegin(p, i, u)
CancelCommit == \E p \in Procs : CancelTx(p)

SessionNext ==
  \/ Purchase \/ PurchaseCommit
  \/ Activate \/ ActivateCommit
  \/ Pause \/ PauseCommit
  \/ Touch \/ TouchExpireCommit \/ TouchCommit
  \/ Cancel \/ CancelCommit
  \/ Tick

SpecSession == Init /\ [][SessionNext]_vars

\* ========================================================= service requests
RequestIds == 1..Len(serviceRequest)

ServiceTypes == {"CHAT", "VIDEO", "AUDIO"}

CreatesInFlight == Cardinality({p \in Procs : call[p].pc = "create_tx"})

\* createServiceRequest: the tier price for CHAT, the flat rate otherwise
\* (the set is empty when no active tier has the duration)
RequestPrice(settings, serviceType, duration) ==
  IF serviceType = "CHAT"
    THEN {t.price : t \in FindTier(settings, duration)}
  ELSE IF serviceType = "VIDEO" THEN {settings.videoPrice}
  ELSE IF serviceType = "IMAGE" THEN {settings.imagePrice}
  ELSE {settings.voiceNotePrice}

\* weekAgo.setDate(weekAgo.getDate() - EXPIRATION_DAYS)
WeekAgo == now - EXPIRATION_DAYS * MinutesPerDay

LedgerEntry(userId, requestId, type, amount, previousBalance, newBalance) ==
  [userId |-> userId, requestId |-> requestId, transactionType |-> type,
   amount |-> amount, previousBalance |-> previousBalance,
   newBalance |-> newBalance]

Notification(userId, requestId, type) ==
  [userId |-> userId, requestId |-> requestId, notificationType |-> type]

\* what the user's row really held around the mutation a ledger entry records
Actual(before, after) ==
  [availableBefore |-> before.availableBalance,
   availableAfter |-> after.availableBalance,
   pendingBefore |-> before.pendingBalance,
   pendingAfter |-> after.pendingBalance]

\* createServiceRequest without the comparison of the balance with the price
CreateRequestBeginMutant(p, requesterId, providerId, serviceType, duration) ==
  /\ Start(p)
  /\ Len(serviceRequest) + CreatesInFlight < MaxRequests
  /\ LET providerSettings == userMonetizationSettings[providerId]
         prices == RequestPrice(providerSettings, serviceType, duration)
         requesterBalance == userBalance[requesterId]
     IN IF requesterId = providerId
          THEN Return(p, "createServiceRequest", "BadRequest")
        ELSE IF ~providerSettings.exists \/ ~providerSettings.isEnabled
          THEN Return(p, "createServiceRequest", "PricingNotConfigured")
        ELSE IF prices = {}
          THEN Return(p, "createServiceRequest", "PricingNotConfigured")
        ELSE \E price \in prices :
          IF ~requesterBalance.exists
            THEN Return(p, "createServiceRequest", "InsufficientFunds")
            ELSE Continue(p,
                   [pc |-> "create_tx", requesterId |-> requesterId,
                    providerId |-> providerId, serviceType |-> serviceType,
                    duration |-> duration, price |-> price,
                    previousBalance |-> requesterBalance.availableBalance])
  /\ UNCHANGED <<now, userMonetizationSettings, paymentVars, dbVars, audit>>

\* createServiceRequest, up to the opening of its transaction.
CreateRequestBegin(p, requesterId, providerId, serviceType, duration) ==
  /\ Start(p)
  /\ Len(serviceRequest) + CreatesInFlight < MaxRequests
  /\ LET providerSettings == userMonetizationSettings[providerId]
         prices == RequestPrice(providerSettings, serviceType, duration)
         requesterBalance == userBalance[requesterId]
     IN IF requesterId = providerId
          THEN Return(p, "createServiceRequest", "BadRequest")
        ELSE IF ~providerSettings.exists \/ ~providerSettings.isEnabled
          THEN Return(p, "createServiceRequest", "PricingNotConfigured")
        ELSE IF prices = {}
          THEN Return(p, "createServiceRequest", "PricingNotConfigured")
        ELSE \E price \in prices :
          IF ~requesterBalance.exists \/ requesterBalance.availableBalance < price
            THEN Return(p, "createServiceRequest", "InsufficientFunds")
            ELSE Continue(p,
                   [pc |-> "create_tx", requesterId |-> requesterId,
                    providerId |-> providerId, serviceType |-> serviceType,
                    duration |-> duration, price |-> price,
                    previousBalance |-> requesterBalance.availableBalance])
  /\ UNCHANGED <<now, userMonetizationSettings, paymentVars, dbVars, audit>>

LockFundsMutant(ub, u, amount) ==
  [ub EXCEPT ![u].availableBalance = @ - amount]

\* tx.userBalance.update({ availableBalance: {decrement}, pendingBalance: {increment} })
LockFunds(ub, u, amount) ==
  [ub EXCEPT ![u].availableBalance = @ - amount,
             ![u].pendingBalance = @ + amount]

\* the transaction of createServiceRequest: the request, the hold, the
\* balance update, the LOCK ledger entry, the notification.
CreateRequestTx(p) ==
  /\ call[p].pc = "create_tx"
  /\ LET c == call[p]
         id == Len(serviceRequest) + 1
         after == LockFunds(userBalance, c.requesterId, c.price)
     IN /\ serviceRequest' = Append(serviceRequest,
             [requesterId |-> c.requesterId, providerId |-> c.providerId,
              serviceType |-> c.serviceType, duration |-> c.duration,
              price |-> c.price, status |-> "PENDING", createdAt |-> now,
              respondedAt |-> NullTime])
        /\ pendingBalance' = Append(pendingBalance,
             [userId |-> c.requesterId, amount |-> c.price,
              status |-> "LOCKED", sourceId |-> id])
        /\ userBalance' = after
        /\ serviceTransaction' = Append(serviceTransaction,
             LedgerEntry(c.requesterId, id, "LOCK", c.price, c.previousBalance,
                         after[c.requesterId].availableBalance))
        /\ serviceNotification' = Append(serviceNotification,
             Notification(c.providerId, id, "SERVICE_REQUEST"))
        /\ audit' = [audit EXCEPT
             !.holdPayouts = Append(@, <<>>),
             !.ledgerActual = Append(@, Actual(userBalance[c.requesterId],
                                               after[c.requesterId]))]
  /\ Return(p, "createServiceRequest", "ok")
  /\ UNCHANGED <<now, userMonetizationSettings, paymentVars, chatSession, contentCharge,
                 serviceSession, rowLock, calls>>

\* respondToRequest without the comparison of createdAt with weekAgo
RespondBeginMutant(p, providerId, requestId, accept) ==
  /\ Start(p)
  /\ requestId \in RequestIds
  /\ LET request == serviceRequest[requestId]
     IN IF request.providerId # providerId
          THEN Return(p, "respondToRequest", "Forbidden")
        ELSE IF request.status # "PENDING"
          THEN Return(p, "respondToRequest", "RequestNotPending")
        ELSE Continue(p,
                 [pc |-> IF accept THEN "accept_tx" ELSE "reject_tx",
                  requestId |-> requestId, request |-> request,
                  todo |-> {}, from |-> "respond"])
  /\ UNCHANGED <<now, userMonetizationSettings, paymentVars, dbVars, audit>>

\* respondToRequest, up to the call of acceptRequest, rejectRequest or
\* expireRequest.
RespondBegin(p, providerId, requestId, accept) ==
  /\ Start(p)
  /\ requestId \in RequestIds
  /\ LET request == serviceRequest[requestId]
     IN IF request.providerId # providerId
          THEN Return(p, "respondToRequest", "Forbidden")
        ELSE IF request.status # "PENDING"
          THEN Return(p, "respondToRequest", "RequestNotPending")
        ELSE IF request.createdAt < WeekAgo
          THEN Continue(p,
                 [pc |-> "expire_read", todo |-> {requestId}, from |-> "respond"])
        ELSE Continue(p,
                 [pc |-> IF accept THEN "accept_tx" ELSE "reject_tx",
                  requestId |-> requestId, request |-> request,
                  todo |-> {}, from |-> "respond"])
  /\ UNCHANGED <<now, userMonetizationSettings, paymentVars, dbVars, audit>>

\* cancelRequest, up to the opening of its transaction.
CancelRequestBegin(p, requesterId, requestId) ==
  /\ Start(p)
  /\ requestId \in RequestIds
  /\ LET request == serviceRequest[requestId]
     IN IF request.requesterId # requesterId
          THEN Return(p, "cancelRequest", "Forbidden")
        ELSE IF request.status # "PENDING"
          THEN Return(p, "cancelRequest", "RequestNotPending")
        ELSE Continue(p,
                 [pc |-> "cancelreq_tx", requestId |-> requestId,
                  request |-> request, todo |-> {}, from |-> "cancel"])
  /\ UNCHANGED <<now, userMonetizationSettings, paymentVars, dbVars, audit>>

\* autoExpireOldRequests: findMany({ status: 'PENDING', createdAt < weekAgo })
AutoExpireBegin(p) ==
  /\ Start(p)
  /\ LET oldRequests == {r \in RequestIds :
                           /\ serviceRequest[r].status = "PENDING"
                           /\ serviceRequest[r].createdAt < WeekAgo}
     IN IF oldRequests = {}
          THEN Return(p, "autoExpireOldRequests", "ok")
          ELSE Continue(p,
                 [pc |-> "expire_read", todo |-> oldRequests, from |-> "sweep"])
  /\ UNCHANGED <<now, userMonetizationSettings, paymentVars, dbVars, audit>>

\* what the caller of expireRequest does when it returns
AfterExpire(p, todo, from) ==
  IF todo # {}
    THEN Continue(p,
           [pc |-> "expire_read", todo |-> todo, from |-> from])
  ELSE IF from = "respond"
    THEN Return(p, "respondToRequest", "RequestExpired")
  ELSE Return(p, "autoExpireOldRequests", "ok")

\* expireRequest: findUnique and the status guard.
ExpireRead(p, requestId) ==
  /\ call[p].pc = "expire_read"
  /\ requestId \in call[p].todo
  /\ LET request == serviceRequest[requestId]
         c == call[p]
     IN IF request.status # "PENDING"
          THEN AfterExpire(p, c.todo \ {requestId}, c.from)
          ELSE Continue(p,
                 [pc |-> "expire_tx", requestId |-> requestId,
                  request |-> request, todo |-> c.todo \ {requestId},
                  from |-> c.from])
  /\ UNCHANGED <<now, userMonetizationSettings, paymentVars, dbVars, calls, audit>>

FindLockedHoldMutant(userId, sourceId) ==
  {h \in 1..Len(pendingBalance) :
     /\ pendingBalance[h].userId = userId
     /\ pendingBalance[h].sourceId = sourceId}

\* tx.pendingBalance.findFirst({ userId, sourceId, status: 'LOCKED' })
FindLockedHold(userId, sourceId) ==
  {h \in 1..Len(pendingBalance) :
     /\ pendingBalance[h].userId = userId
     /\ pendingBalance[h].sourceId = sourceId
     /\ pendingBalance[h].status = "LOCKED"}

\* locked.reduce((sum, pb) => sum + pb.amount, 0) over the first n holds
RECURSIVE SumLocked(_, _)
SumLocked(userId, n) ==
  IF n = 0 THEN 0
  ELSE SumLocked(userId, n - 1)
         + (IF /\ pendingBalance[n].userId = userId
               /\ pendingBalance[n].status = "LOCKED"
              THEN pendingBalance[n].amount ELSE 0)

\* getPendingBalance: totalLocked
TotalLocked(userId) == SumLocked(userId, Len(pendingBalance))

TxPcs == {"accept_tx", "reject_tx", "cancelreq_tx", "expire_tx"}

CommitPc(pc) ==
  CASE pc = "accept_tx" -> "accept_commit"
    [] pc = "reject_tx" -> "reject_commit"
    [] pc = "cancelreq_tx" -> "cancelreq_commit"
    [] pc = "expire_tx" -> "expire_commit"

\* The first statement of the four transactions on a request is
\* tx.serviceRequest.update({ where: { id } }): it takes the row lock of the
\* request, which the transaction keeps until it commits, so a second
\* transaction on the same request waits here.  The hold and the balance rows
\* the transaction reads next are read at this point.
TxOpen(p) ==
  /\ call[p].pc \in TxPcs
  /\ call[p].requestId \notin rowLock
  /\ rowLock' = rowLock \cup {call[p].requestId}
  /\ LET c == call[p]
         holds == FindLockedHold(c.request.requesterId, c.requestId)
     IN \E hold \in (IF holds = {} THEN {0} ELSE holds) :
          Continue(p,
            [pc |-> CommitPc(c.pc), requestId |-> c.requestId,
             request |-> c.request, todo |-> c.todo, from |-> c.from,
             hold |-> hold,
             requesterBalance |-> userBalance[c.request.requesterId].availableBalance,
             providerBalance |-> userBalance[c.request.providerId].availableBalance])
  /\ UNCHANGED <<now, userMonetizationSettings, paymentVars, userBalance, chatSession,
                 contentCharge, serviceRequest, pendingBalance,
                 serviceTransaction, serviceSession, serviceNotification,
                 calls, audit>>

\* a payment taken from the available balance as well
ReleasePendingMutant(ub, u, amount) ==
  [ub EXCEPT ![u].pendingBalance = @ - amount,
             ![u].availableBalance = @ - amount]

\* tx.userBalance.update({ pendingBalance: { decrement } }) of the requester
ReleasePending(ub, u, amount) ==
  [ub EXCEPT ![u].pendingBalance = @ - amount]

\* a refund that leaves the amount pending as well
UnlockFundsMutant(ub, u, amount) ==
  [ub EXCEPT ![u].availableBalance = @ + amount]

\* tx.userBalance.update({ availableBalance: {increment}, pendingBalance: {decrement} })
UnlockFunds(ub, u, amount) ==
  [ub EXCEPT ![u].availableBalance = @ + amount,
             ![u].pendingBalance = @ - amount]

SetStatus(requestId, status) ==
  [serviceRequest EXCEPT ![requestId] =
     [@ EXCEPT !.status = status, !.respondedAt = now]]

\* a hold whose status is never written
SetHoldMutant(hold, status) == pendingBalance

SetHold(hold, status) ==
  IF hold = 0 THEN pendingBalance
  ELSE [pendingBalance EXCEPT ![hold].status = status]

Payout(hold, to, amount) ==
  IF hold = 0 THEN audit
  ELSE [audit EXCEPT !.holdPayouts[hold] = Append(@, [to |-> to, amount |-> amount])]

\* acceptRequest: the transaction from its second statement to its commit.
\* service_sessions.requestId is unique: when the request already has a
\* session the insert fails and the whole transaction rolls back.
AcceptCommit(p) ==
  /\ call[p].pc = "accept_commit"
  /\ rowLock' = rowLock \ {call[p].requestId}
  /\ LET c == call[p]
         r == c.request
         paid == ReleasePending(userBalance, r.requesterId, r.price)
         after == CreditUpsert(paid, r.providerId, r.price)
     IN IF \E ss \in serviceSession : ss.requestId = c.requestId
          THEN /\ Return(p, "respondToRequest", "Failed")
               /\ UNCHANGED <<userBalance, serviceRequest, pendingBalance,
                              serviceTransaction, serviceSession,
                              serviceNotification, audit>>
          ELSE /\ serviceRequest' = SetStatus(c.requestId, "ACCEPTED")
               /\ pendingBalance' = SetHold(c.hold, "RELEASED")
               /\ userBalance' = IF c.hold = 0 THEN userBalance ELSE after
               /\ serviceTransaction' =
                    IF c.hold = 0 THEN serviceTransaction
                    ELSE serviceTransaction \o
                      << LedgerEntry(r.requesterId, c.requestId, "PAYMENT", r.price,
                                     c.requesterBalance, c.requesterBalance),
                         LedgerEntry(r.providerId, c.requestId, "EARNING", r.price,
                                     c.providerBalance,
                                     after[r.providerId].availableBalance) >>
               /\ serviceSession' = serviceSession \cup
                    {[requestId |-> c.requestId, requesterId |-> r.requesterId,
                      providerId |-> r.providerId, duration |-> r.duration,
                      price |-> r.price, startTime |-> now,
                      endTime |-> now + r.duration, isPaid |-> TRUE]}
               /\ serviceNotification' = serviceNotification \o
                    << Notification(r.requesterId, c.requestId, "REQUEST_ACCEPTED"),
                       Notification(r.providerId, c.requestId, "SESSION_STARTED") >>
               /\ audit' =
                    IF c.hold = 0 THEN audit
                    ELSE [Payout(c.hold, r.providerId, r.price) EXCEPT
                            !.ledgerActual = @ \o
                              << Actual(userBalance[r.requesterId], paid[r.requesterId]),
                                 Actual(paid[r.providerId], after[r.providerId]) >>]
               /\ Return(p, "respondToRequest", "ok")
  /\ UNCHANGED <<now, userMonetizationSettings, paymentVars, chatSession, contentCharge, calls>>

\* the part rejectRequest, cancelRequest and expireRequest share: the
\* request's new status, the hold's new status, the refund of the locked
\* amount to the requester and its REFUND ledger entry.
RefundCommit(p, status, holdStatus, notes) ==
  LET c == call[p]
      r == c.request
      after == UnlockFunds(userBalance, r.requesterId, r.price)
  IN /\ rowLock' = rowLock \ {c.requestId}
     /\ serviceRequest' = SetStatus(c.requestId, status)
     /\ pendingBalance' = SetHold(c.hold, holdStatus)
     /\ userBalance' = IF c.hold = 0 THEN userBalance ELSE after
     /\ serviceTransaction' =
          IF c.hold = 0 THEN serviceTransaction
          ELSE Append(serviceTransaction,
                 LedgerEntry(r.requesterId, c.requestId, "REFUND", r.price,
                             c.requesterBalance,
                             after[r.requesterId].availableBalance))
     /\ serviceNotification' = serviceNotification \o notes
     /\ audit' =
          IF c.hold = 0 THEN audit
          ELSE [Payout(c.hold, r.requesterId, r.price) EXCEPT
                  !.ledgerActual = Append(@, Actual(userBalance[r.requesterId],
                                                    after[r.requesterId]))]
     /\ UNCHANGED <<now, userMonetizationSettings, paymentVars, chatSession, contentCharge,
                    serviceSession, calls>>

RejectCommit(p) ==
  /\ call[p].pc = "reject_commit"
  /\ RefundCommit(p, "REJECTED", "REFUNDED",
       << Notification(call[p].request.requesterId, call[p].requestId,
                       "REQUEST_REJECTED") >>)
  /\ Return(p, "respondToRequest", "ok")

CancelRequestCommit(p) ==
  /\ call[p].pc = "cancelreq_commit"
  /\ RefundCommit(p, "CANCELLED", "REFUNDED",
       << Notification(call[p].request.providerId, call[p].requestId,
                       "REQUEST_EXPIRED") >>)
  /\ Return(p, "cancelRequest", "ok")

ExpireCommit(p) ==
  /\ call[p].pc = "expire_commit"
  /\ RefundCommit(p, "EXPIRED", "EXPIRED",
       << Notification(call[p].request.requesterId, call[p].requestId,
                       "REQUEST_EXPIRED"),
          Notification(call[p].request.providerId, call[p].requestId,
                       "REQUEST_EXPIRED") >>)
  /\ AfterExpire(p, call[p].todo, call[p].from)

\* DayStep days pass.  Nothing reads the clock but against a request's
\* createdAt, so time starts to pass with the first request.
DayTick ==
  /\ now < MaxDayTicks * DayStep * MinutesPerDay
  /\ serviceRequest # << >>
  /\ now' = now + DayStep * MinutesPerDay
  /\ UNCHANGED <<userMonetizationSettings, paymentVars, dbVars, call, returned, calls, audit>>

\* the service types the modelled callers ask for
RequestedTypes == {"CHAT", "VIDEO"}

CreateRequest == \E p \in Procs, r \in Users, v \in Users, t \in RequestedTypes :
                    \E d \in {2} : CreateRequestBegin(p, r, v, t, d)
CreateRequestCommit == \E p \in Procs : CreateRequestTx(p)
Respond == \E p \in Procs, v \in Users, r \in RequestIds, a \in BOOLEAN :
              RespondBegin(p, v, r, a)
CancelRequest == \E p \in Procs, u \in Users, r \in RequestIds :
                    CancelRequestBegin(p, u, r)
AutoExpire == \E p \in Procs : AutoExpireBegin(p)
ExpireRequest == \E p \in Procs, r \in RequestIds : ExpireRead(p, r)
OpenTransaction == \E p \in Procs : TxOpen(p)
Accept == \E p \in Procs : AcceptCommit(p)
Reject == \E p \in Procs : RejectCommit(p)
CancelRequestDone == \E p \in Procs : CancelRequestCommit(p)
Expire == \E p \in Procs : ExpireCommit(p)

EscrowNext ==
  \/ CreateRequest \/ CreateRequestCommit
  \/ Respond \/ CancelRequest \/ AutoExpire \/ ExpireRequest
  \/ OpenTransaction
  \/ Accept \/ Reject \/ CancelRequestDone \/ Expire
  \/ DayTick

SpecEscrow == Init /\ [][EscrowNext]_vars

\* ========================================================== content charges
ContentTypes == {"TEXT", "IMAGE", "VIDEO"}

\* durationSeconds as the callers pass it; 0 stands for a missing duration
DurationSeconds == {0, 2}

\* createContentCharge, lines 314-351: <<basePrice, units, totalAmount>>,
\* "free" where the method returns null, "DurationRequired" where it throws
ContentCost(settings, contentType, durationSeconds) ==
  IF contentType = "TEXT" THEN "free"
  ELSE IF contentType = "AUDIO" /\ settings.monetizeVoiceNotes
    THEN IF durationSeconds = 0 THEN "DurationRequired"
         ELSE <<settings.voiceNotePrice, durationSeconds,
                settings.voiceNotePrice * durationSeconds>>
  ELSE IF contentType = "IMAGE" /\ settings.monetizeImages
    THEN <<settings.imagePrice, 1, settings.imagePrice>>
  ELSE IF contentType = "VIDEO" /\ settings.monetizeVideos
    THEN IF durationSeconds = 0 THEN "DurationRequired"
         ELSE <<settings.videoPrice, durationSeconds,
                settings.videoPrice * durationSeconds>>
  ELSE "free"

\* createContentCharge up to the balance check that opens its transaction.
ChargeBegin(p, messageId, sessionId, senderId, recipientId, contentType, durationSeconds) ==
  /\ Start(p)
  /\ LET settings == userMonetizationSettings[recipientId]
         cost == ContentCost(settings, contentType, durationSeconds)
         senderBalance == userBalance[senderId]
     IN IF ~settings.exists \/ ~settings.isEnabled \/ cost = "free"
          THEN Return(p, "createContentCharge", "null")
        ELSE IF cost = "DurationRequired"
          THEN Return(p, "createContentCharge", "DurationRequired")
        ELSE IF ~senderBalance.exists \/ senderBalance.availableBalance < cost[3]
          THEN Return(p, "createContentCharge", "InsufficientFunds")
        ELSE Continue(p,
               [pc |-> "charge_tx", messageId |-> messageId,
                sessionId |-> sessionId, senderId |-> senderId,
                recipientId |-> recipientId, contentType |-> contentType,
                basePrice |-> cost[1], units |-> cost[2],
                totalAmount |-> cost[3]])
  /\ UNCHANGED <<now, userMonetizationSettings, paymentVars, dbVars, audit>>

ChargeExistsMutant(messageId) == FALSE

\* content_charges_messageId_key: a row with this messageId is already there
ChargeExists(messageId) ==
  \E ch \in contentCharge : ch.messageId = messageId

\* the writes of the transaction of createContentCharge: debit the sender,
\* credit (upsert) the recipient, insert the charge.  The insert fails on the
\* unique index of messageId and on the foreign key of sessionId, and the
\* transaction then rolls back.  No service_transactions row is written.
ChargeTx(p) ==
  /\ call[p].pc = "charge_tx"
  /\ LET c == call[p]
     IN IF ChargeExists(c.messageId) \/ c.sessionId \notin SessionIds
          THEN /\ Return(p, "createContentCharge",
                         IF ChargeExists(c.messageId)
                           THEN "InternalServerError(unique messageId)"
                           ELSE "InternalServerError(foreign key sessionId)")
               /\ UNCHANGED <<userBalance, contentCharge, audit>>
          ELSE /\ userBalance' =
                    CreditUpsert(Debit(userBalance, c.senderId, c.totalAmount),
                                 c.recipientId, c.totalAmount)
               /\ contentCharge' = contentCharge \cup
                    {[messageId |-> c.messageId, sessionId |-> c.sessionId,
                      senderId |-> c.senderId, recipientId |-> c.recipientId,
                      contentType |-> c.contentType, basePrice |-> c.basePrice,
                      units |-> c.units, totalAmount |-> c.totalAmount,
                      isPaid |-> TRUE]}
               /\ audit' = [audit EXCEPT !.chargeMoves[c.messageId] = @ + 1]
               /\ Return(p, "createContentCharge", "ok")
  /\ UNCHANGED <<now, userMonetizationSettings, paymentVars, chatSession, escrowVars, calls>>

Charge == \E p \in Procs, m \in MessageIds, i \in 1..MaxSessions,
             a \in Users, b \in Users, t \in ContentTypes, d \in DurationSeconds :
             ChargeBegin(p, m, i, a, b, t, d)
ChargeCommit == \E p \in Procs : ChargeTx(p)

ChargeNext ==
  \/ Purchase \/ PurchaseCommit
  \/ Charge \/ ChargeCommit

SpecCharge == Init /\ [][ChargeNext]_vars

\* ================================================= session reads and sweeper
\* inactivityMinutes as the scheduler's request body passes it
InactivityMinutes == {1, 2}

\* prisma.chatSession.findFirst of getActiveSession: the pair in either
\* order, isActive, not cancelled; no orderBy
ActiveSessionRows(userId1, userId2) ==
  {i \in SessionIds :
     /\ \/ chatSession[i].buyerId = userId1 /\ chatSession[i].sellerId = userId2
        \/ chatSession[i].buyerId = userId2 /\ chatSession[i].sellerId = userId1
     /\ chatSession[i].isActive
     /\ ~chatSession[i].isCancelled}

\* the minutes an expired running session is finalized with
ExpiredUsed(session) ==
  session.usedMinutes + Min(session.durationMinutes - session.usedMinutes,
                            session.endTime - LastActive(session))

\* getActiveSession: findFirst and the expiry test.
GetActiveRead(p, userId1, userId2) ==
  /\ Start(p)
  /\ LET rows == ActiveSessionRows(userId1, userId2)
     IN IF rows = {}
          THEN Return(p, "getActiveSession", "null")
        ELSE \E i \in rows :
          LET session == chatSession[i]
          IN IF ~session.isPaused /\ now > session.endTime
               THEN Continue(p,
                      [pc |-> "getactive_expire", sessionId |-> i,
                       totalUsed |-> ExpiredUsed(session)])
               ELSE Return(p, "getActiveSession", "session")
  /\ UNCHANGED <<now, userMonetizationSettings, paymentVars, dbVars, audit>>

\* getActiveSession, running and past endTime: finalize and return null.
GetActiveExpire(p) ==
  /\ call[p].pc = "getactive_expire"
  /\ LET c == call[p]
     IN chatSession' = [chatSession EXCEPT ![c.sessionId] =
          [@ EXCEPT !.isActive = FALSE, !.usedMinutes = c.totalUsed,
                    !.isPaused = TRUE]]
  /\ Return(p, "getActiveSession", "null")
  /\ UNCHANGED <<now, userMonetizationSettings, paymentVars, userBalance, contentCharge,
                 escrowVars, calls, audit>>

\* a findMany without the isPaused filter
InactiveSessionsMutant(inactivityMinutes) ==
  {i \in SessionIds :
     /\ chatSession[i].isActive
     /\ chatSession[i].lastActiveAt # NullTime
     /\ chatSession[i].lastActiveAt < now - inactivityMinutes}

\* findMany({ isActive: true, isPaused: false, lastActiveAt: { lt: cutoffTime } })
InactiveSessions(inactivityMinutes) ==
  {i \in SessionIds :
     /\ chatSession[i].isActive
     /\ ~chatSession[i].isPaused
     /\ chatSession[i].lastActiveAt # NullTime
     /\ chatSession[i].lastActiveAt < now - inactivityMinutes}

\* autoPauseInactiveSessions: the findMany; the rows it returned are kept.
AutoPauseBegin(p, inactivityMinutes) ==
  /\ Start(p)
  /\ LET inactiveSessions == InactiveSessions(inactivityMinutes)
     IN IF inactiveSessions = {}
          THEN Return(p, "autoPauseInactiveSessions", "ok")
          ELSE Continue(p,
                 [pc |-> "autopause_update",
                  todo |-> [i \in inactiveSessions |-> chatSession[i]]])
  /\ UNCHANGED <<now, userMonetizationSettings, paymentVars, dbVars, audit>>

\* session.usedMinutes + (now - lastActive) / 60000, from the row as read
AutoPauseTotalUsed(session) ==
  session.usedMinutes + (now - LastActive(session))

\* autoPauseInactiveSessions: one turn of the loop, the update of one row.
AutoPauseUpdate(p, sessionId) ==
  /\ call[p].pc = "autopause_update"
  /\ sessionId \in DOMAIN call[p].todo
  /\ LET todo == call[p].todo
         rest == [i \in (DOMAIN todo) \ {sessionId} |-> todo[i]]
     IN /\ chatSession' = [chatSession EXCEPT ![sessionId] =
             [@ EXCEPT !.isPaused = TRUE,
                       !.usedMinutes = AutoPauseTotalUsed(todo[sessionId])]]
        /\ IF DOMAIN rest = {}
             THEN Return(p, "autoPauseInactiveSessions", "ok")
             ELSE Continue(p, [pc |-> "autopause_update", todo |-> rest])
  /\ UNCHANGED <<now, userMonetizationSettings, paymentVars, userBalance, contentCharge,
                 escrowVars, calls, audit>>

GetActive == \E p \in Procs, a \in Users, b \in Users : GetActiveRead(p, a, b)
GetActiveExpireCommit == \E p \in Procs : GetActiveExpire(p)
AutoPause == \E p \in Procs, m \in InactivityMinutes : AutoPauseBegin(p, m)
AutoPauseCommit == \E p \in Procs, i \in SessionIds : AutoPauseUpdate(p, i)

\* the state after u1 bought the tier of u2 at minute 0
InitUsage ==
  /\ now = 0
  /\ userMonetizationSettings = Catalog
  /\ payment = Payments
  /\ paymentCallback = <<>>
  /\ userBalance =
       [u \in Users |->
          CASE u = "u1" -> [NoBalance EXCEPT !.exists = TRUE,
                              !.availableBalance = 4, !.totalSpent = 4]
            [] u = "u2" -> [NoBalance EXCEPT !.exists = TRUE,
                              !.availableBalance = 4, !.totalEarnings = 4]
            [] OTHER -> NoBalance]
  /\ chatSession =
       << NewChatSession([buyerId |-> "u1", sellerId |-> "u2",
                          durationMinutes |-> 2, price |-> 4]) >>
  /\ contentCharge = {}
  /\ serviceRequest = <<>>
  /\ pendingBalance = <<>>
  /\ serviceTransaction = <<>>
  /\ serviceSession = {}
  /\ serviceNotification = <<>>
  /\ rowLock = {}
  /\ call = [p \in Procs |-> IdleCall]
  /\ returned = [op |-> "purchaseChatTime", outcome |-> "ok"]
  /\ calls = 0
  /\ audit = [NoAudit EXCEPT !.sessionRefunds = << <<>> >>]

UsageNext ==
  \/ Activate \/ ActivateCommit
  \/ Pause \/ PauseCommit
  \/ Touch \/ TouchExpireCommit \/ TouchCommit
  \/ GetActive \/ GetActiveExpireCommit
  \/ AutoPause \/ AutoPauseCommit
  \/ Tick

SpecUsage == InitUsage /\ [][UsageNext]_vars

\* ================================================== failing transactions
TxRollbackMutant(committed, written) == written

\* prisma.$transaction(async (tx) => ...): when the callback throws, the
\* statements it has run are rolled back and the committed rows stay
TxRollback(committed, written) == committed

\* purchaseChatTime: a statement of the transaction throws (after the
\* buyer's update, or after the seller's upsert too); the catch block turns
\* it into InternalServerError.
PurchaseTxFail(p) ==
  /\ call[p].pc = "purchase_tx"
  /\ LET c == call[p]
         debited == Debit(userBalance, c.buyerId, c.price)
     IN \E written \in {debited, CreditUpsert(debited, c.sellerId, c.price)} :
          userBalance' = TxRollback(userBalance, written)
  /\ Return(p, "purchaseChatTime", "InternalServerError")
  /\ UNCHANGED <<now, userMonetizationSettings, paymentVars, chatSession, contentCharge,
                 escrowVars, calls, audit>>

\* createServiceRequest: a statement of the transaction throws after the
\* request, the hold and the balance update; the catch block turns it into
\* BadRequest('Failed to create service request').
CreateRequestTxFail(p) ==
  /\ call[p].pc = "create_tx"
  /\ LET c == call[p]
         id == Len(serviceRequest) + 1
     IN /\ serviceRequest' = TxRollback(serviceRequest,
             Append(serviceRequest,
               [requesterId |-> c.requesterId, providerId |-> c.providerId,
                serviceType |-> c.serviceType, duration |-> c.duration,
                price |-> c.price, status |-> "PENDING", createdAt |-> now,
                respondedAt |-> NullTime]))
        /\ pendingBalance' = TxRollback(pendingBalance,
             Append(pendingBalance,
               [userId |-> c.requesterId, amount |-> c.price,
                status |-> "LOCKED", sourceId |-> id]))
        /\ userBalance' = TxRollback(userBalance,
             LockFunds(userBalance, c.requesterId, c.price))
  /\ Return(p, "createServiceRequest", "BadRequest(failed)")
  /\ UNCHANGED <<now, userMonetizationSettings, paymentVars, chatSession, contentCharge,
                 serviceTransaction, serviceSession, serviceNotification,
                 rowLock, calls, audit>>

PurchaseFail == \E p \in Procs : PurchaseTxFail(p)
CreateRequestFail == \E p \in Procs : CreateRequestTxFail(p)

FailureNext ==
  \/ Purchase \/ PurchaseCommit \/ PurchaseFail
  \/ Charge \/ ChargeCommit
  \/ CreateRequest \/ CreateRequestCommit \/ CreateRequestFail

SpecFailure == Init /\ [][FailureNext]_vars

\* ========================================== sessions and requests together
\* the state after u1 bought the tier of u2 and then sent u2 a CHAT request
\* of 2 minutes, both at minute 0
InitErrors ==
  /\ now = 0
  /\ userMonetizationSettings = Catalog
  /\ payment = Payments
  /\ paymentCallback = <<>>
  /\ userBalance =
       [u \in Users |->
          CASE u = "u1" -> [NoBalance EXCEPT !.exists = TRUE,
                              !.availableBalance = 0, !.pendingBalance = 4,
                              !.totalSpent = 4]
            [] u = "u2" -> [NoBalance EXCEPT !.exists = TRUE,
                              !.availableBalance = 4, !.totalEarnings = 4]
            [] OTHER -> NoBalance]
  /\ chatSession =
       << NewChatSession([buyerId |-> "u1", sellerId |-> "u2",
                          durationMinutes |-> 2, price |-> 4]) >>
  /\ contentCharge = {}
  /\ serviceRequest =
       << [requesterId |-> "u1", providerId |-> "u2", serviceType |-> "CHAT",
           duration |-> 2, price |-> 4, status |-> "PENDING", createdAt |-> 0,
           respondedAt |-> NullTime] >>
  /\ pendingBalance =
       << [userId |-> "u1", amount |-> 4, status |-> "LOCKED", sourceId |-> 1] >>
  /\ serviceTransaction = << LedgerEntry("u1", 1, "LOCK", 4, 4, 0) >>
  /\ serviceSession = {}
  /\ serviceNotification = << Notification("u2", 1, "SERVICE_REQUEST") >>
  /\ rowLock = {}
  /\ call = [p \in Procs |-> IdleCall]
  /\ returned = [op |-> "createServiceRequest", outcome |-> "ok"]
  /\ calls = 0
  /\ audit = [NoAudit EXCEPT
                !.sessionRefunds = << <<>> >>,
                !.holdPayouts = << <<>> >>,
                !.ledgerActual =
                   << [availableBefore |-> 4, availableAfter |-> 0,
                       pendingBefore |-> 0, pendingAfter |-> 4] >>]

ErrorsNext ==
  \/ Activate \/ ActivateCommit
  \/ Pause \/ PauseCommit
  \/ Touch \/ TouchExpireCommit \/ TouchCommit
  \/ Cancel \/ CancelCommit
  \/ Respond \/ CancelRequest \/ ExpireRequest
  \/ OpenTransaction
  \/ Accept \/ Reject \/ CancelRequestDone \/ Expire
  \/ DayTick

SpecErrors == InitErrors /\ [][ErrorsNext]_vars

\* ======================================================= the two sweepers
SweeperOps == {"autoExpireOldRequests", "autoPauseInactiveSessions"}

\* inactivityMinutes of the scheduler's runs (the default, on the model's
\* scale of minutes)
SweepInactivityMinutes == 1

\* the state after u1 bought the tier of u2 and activated the session, u1
\* sent u2 a CHAT request of 2 minutes and u2 sent u1 one, all at minute 0
InitSweep ==
  /\ now = 0
  /\ userMonetizationSettings = Catalog
  /\ payment = Payments
  /\ paymentCallback = <<>>
  /\ userBalance =
       [u \in Users |->
          CASE u = "u1" -> [NoBalance EXCEPT !.exists = TRUE,
                              !.availableBalance = 0, !.pendingBalance = 4,
                              !.totalSpent = 4]
            [] u = "u2" -> [NoBalance EXCEPT !.exists = TRUE,
                              !.availableBalance = 0, !.pendingBalance = 4,
                              !.totalEarnings = 4]
            [] OTHER -> NoBalance]
  /\ chatSession =
       << [NewChatSession([buyerId |-> "u1", sellerId |-> "u2",
                           durationMinutes |-> 2, price |-> 4])
             EXCEPT !.isPaused = FALSE, !.resumedAt = 0, !.lastActiveAt = 0,
                    !.endTime = 2] >>
  /\ contentCharge = {}
  /\ serviceRequest =
       << [requesterId |-> "u1", providerId |-> "u2", serviceType |-> "CHAT",
           duration |-> 2, price |-> 4, status |-> "PENDING", createdAt |-> 0,
           respondedAt |-> NullTime],
          [requesterId |-> "u2", providerId |-> "u1", serviceType |-> "CHAT",
           duration |-> 2, price |-> 4, status |-> "PENDING", createdAt |-> 0,
           respondedAt |-> NullTime] >>
  /\ pendingBalance =
       << [userId |-> "u1", amount |-> 4, status |-> "LOCKED", sourceId |-> 1],
          [userId |-> "u2", amount |-> 4, status |-> "LOCKED", sourceId |-> 2] >>
  /\ serviceTransaction =
       << LedgerEntry("u1", 1, "LOCK", 4, 4, 0),
          LedgerEntry("u2", 2, "LOCK", 4, 4, 0) >>
  /\ serviceSession = {}
  /\ serviceNotification =
       << Notification("u2", 1, "SERVICE_REQUEST"),
          Notification("u1", 2, "SERVICE_REQUEST") >>
  /\ rowLock = {}
  /\ call = [p \in Procs |-> IdleCall]
  /\ returned = [op |-> "createServiceRequest", outcome |-> "ok"]
  /\ calls = 0
  /\ audit = [NoAudit EXCEPT
                !.sessionRefunds = << <<>> >>,
                !.holdPayouts = << <<>>, <<>> >>,
                !.ledgerActual =
                   << [availableBefore |-> 4, availableAfter |-> 0,
                       pendingBefore |-> 0, pendingAfter |-> 4],
                      [availableBefore |-> 4, availableAfter |-> 0,
                       pendingBefore |-> 0, pendingAfter |-> 4] >>]

\* no call is in progress
Quiet == \A p \in Procs : IsIdle(p)

\* time passes until the first run of a sweeper
SweepTick == Quiet /\ returned.op \notin SweeperOps /\ Tick

SweepDayTick == Quiet /\ returned.op \notin SweeperOps /\ DayTick

\* the scheduler runs one sweeper, again and again, one run after the other
SweepAutoExpire ==
  Quiet /\ returned.op # "autoPauseInactiveSessions" /\ AutoExpire

SweepAutoPause ==
  /\ Quiet
  /\ returned.op # "autoExpireOldRequests"
  /\ \E p \in Procs : AutoPauseBegin(p, SweepInactivityMinutes)

SweepNext ==
  \/ SweepTick \/ SweepDayTick
  \/ SweepAutoExpire \/ ExpireRequest \/ OpenTransaction \/ Expire
  \/ SweepAutoPause \/ AutoPauseCommit

SpecSweep == InitSweep /\ [][SweepNext]_vars

\* =============================================================== authorize
\* additionalCost with a video billed per item
AdditionalCostMutant(settings, contentType, durationSeconds) ==
  IF contentType = "AUDIO" /\ settings.monetizeVoiceNotes
    THEN IF durationSeconds = 0 THEN "DurationRequired"
         ELSE <<settings.voiceNotePrice, durationSeconds,
                settings.voiceNotePrice * durationSeconds>>
  ELSE IF contentType = "IMAGE" /\ settings.monetizeImages
    THEN <<settings.imagePrice, 1, settings.imagePrice>>
  ELSE IF contentType = "VIDEO" /\ settings.monetizeVideos
    THEN IF durationSeconds = 0 THEN "DurationRequired"
         ELSE <<settings.videoPrice, 1, settings.videoPrice>>
  ELSE "none"

\* canSendMessage, lines 225-270: <<basePrice, units, totalCost>> of
\* additionalCost, "none" where it stays undefined, "DurationRequired" where
\* the method throws
AdditionalCost(settings, contentType, durationSeconds) ==
  IF contentType = "AUDIO" /\ settings.monetizeVoiceNotes
    THEN IF durationSeconds = 0 THEN "DurationRequired"
         ELSE <<settings.voiceNotePrice, durationSeconds,
                settings.voiceNotePrice * durationSeconds>>
  ELSE IF contentType = "IMAGE" /\ settings.monetizeImages
    THEN <<settings.imagePrice, 1, settings.imagePrice>>
  ELSE IF contentType = "VIDEO" /\ settings.monetizeVideos
    THEN IF durationSeconds = 0 THEN "DurationRequired"
         ELSE <<settings.videoPrice, durationSeconds,
                settings.videoPrice * durationSeconds>>
  ELSE "none"

\* canSendMessage is called with its arguments.
CanSendBegin(p, senderId, recipientId, contentType, durationSeconds) ==
  /\ Start(p)
  /\ Continue(p,
       [pc |-> "cansend_read", senderId |-> senderId,
        recipientId |-> recipientId, contentType |-> contentType,
        durationSeconds |-> durationSeconds])
  /\ UNCHANGED <<now, userMonetizationSettings, paymentVars, dbVars, audit>>

\* canSendMessage: the settings, getActiveSession's findFirst and expiry
\* test, the cost, the balance pre-check.
CanSendRead(p) ==
  /\ call[p].pc = "cansend_read"
  /\ LET c == call[p]
         settings == userMonetizationSettings[c.recipientId]
         rows == ActiveSessionRows(c.senderId, c.recipientId)
         cost == AdditionalCost(settings, c.contentType, c.durationSeconds)
         senderBalance == userBalance[c.senderId]
     IN IF ~settings.exists \/ ~settings.isEnabled
          THEN Return(p, "canSendMessage", "NotRequired")
        ELSE IF rows = {}
          THEN Return(p, "canSendMessage", "SessionRequired")
        ELSE \E i \in rows :
          LET session == chatSession[i]
          IN IF ~session.isPaused /\ now > session.endTime
               THEN Continue(p,
                      [pc |-> "cansend_expire", sessionId |-> i,
                       totalUsed |-> ExpiredUsed(session),
                       contentType |-> c.contentType])
             ELSE IF session.buyerId # c.senderId
               THEN Return(p, "canSendMessage", "SessionRequired")
             ELSE IF cost = "none"
               THEN Return(p, "canSendMessage", "NotRequired")
             ELSE IF cost = "DurationRequired"
               THEN Return(p, "canSendMessage", "DurationRequired")
             ELSE IF ~senderBalance.exists
                     \/ senderBalance.availableBalance < cost[3]
               THEN Return(p, "canSendMessage", "InsufficientFunds")
             ELSE Return(p, "canSendMessage", "AdditionalCost")
  /\ UNCHANGED <<now, userMonetizationSettings, paymentVars, dbVars, calls, audit>>

\* canSendMessage, the session running and past endTime: getActiveSession
\* finalizes it and returns null, so a session is required.
CanSendExpire(p) ==
  /\ call[p].pc = "cansend_expire"
  /\ LET c == call[p]
     IN chatSession' = [chatSession EXCEPT ![c.sessionId] =
          [@ EXCEPT !.isActive = FALSE, !.usedMinutes = c.totalUsed,
                    !.isPaused = TRUE]]
  /\ Return(p, "canSendMessage", "SessionRequired")
  /\ UNCHANGED <<now, userMonetizationSettings, paymentVars, userBalance, contentCharge,
                 escrowVars, calls, audit>>

\* the buyer of the session and a user without one ask about messages to
\* the seller and to a user who never set monetization up
CanSend == \E p \in Procs, a \in {"u1", "u3"}, b \in {"u2", "u3"} :
             \E t \in ContentTypes, d \in DurationSeconds :
               CanSendBegin(p, a, b, t, d)
CanSendCheck == \E p \in Procs : CanSendRead(p)
CanSendExpireCommit == \E p \in Procs : CanSendExpire(p)

\* the charge of a message of the buyer to the seller, against their session
CanSendCharge == \E p \in Procs, m \in MessageIds, t \in ContentTypes :
                   \E d \in DurationSeconds : ChargeBegin(p, m, 1, "u1", "u2", t, d)

AuthorizeNext ==
  \/ Activate \/ ActivateCommit
  \/ Tick
  \/ CanSend \/ CanSendCheck \/ CanSendExpireCommit
  \/ CanSendCharge \/ ChargeCommit

SpecAuthorize == InitUsage /\ [][AuthorizeNext]_vars

\* ======================================================= cost of a message
\* enum MessageType
MessageTypes == {"TEXT", "IMAGE", "FILE", "VIDEO", "AUDIO"}

\* the pricing configurations of a recipient: no settings row, or a row
\* enabled or not, with each content type monetized or not, voice notes at
\* 1 a second, images at 3, videos at 2 a second or at 0
PricingConfigs ==
  {NoSettings} \cup
  {[NoSettings EXCEPT !.exists = TRUE, !.isEnabled = e,
      !.chatTimeTiers = {[durationMinutes |-> 2, price |-> 4, isActive |-> TRUE]},
      !.monetizeVoiceNotes = a, !.voiceNotePrice = 1,
      !.monetizeImages = i, !.imagePrice = 3,
      !.monetizeVideos = v, !.videoPrice = vp] :
     e \in BOOLEAN, a \in BOOLEAN, i \in BOOLEAN, v \in BOOLEAN, vp \in {0, 2}}

\* u2's pricing is any configuration; u1 bought 2 minutes of u2 for 4 (while
\* u2 sold them) out of a deposit of 12
InitCost ==
  /\ now = 0
  /\ \E config \in PricingConfigs :
       userMonetizationSettings = [Catalog EXCEPT !["u2"] = config]
  /\ payment = Payments
  /\ paymentCallback = <<>>
  /\ userBalance =
       [u \in Users |->
          CASE u = "u1" -> [NoBalance EXCEPT !.exists = TRUE,
                              !.availableBalance = 8, !.totalSpent = 4]
            [] u = "u2" -> [NoBalance EXCEPT !.exists = TRUE,
                              !.availableBalance = 4, !.totalEarnings = 4]
            [] OTHER -> NoBalance]
  /\ chatSession =
       << NewChatSession([buyerId |-> "u1", sellerId |-> "u2",
                          durationMinutes |-> 2, price |-> 4]) >>
  /\ contentCharge = {}
  /\ serviceRequest = <<>>
  /\ pendingBalance = <<>>
  /\ serviceTransaction = <<>>
  /\ serviceSession = {}
  /\ serviceNotification = <<>>
  /\ rowLock = {}
  /\ call = [p \in Procs |-> IdleCall]
  /\ returned = [op |-> "purchaseChatTime", outcome |-> "ok"]
  /\ calls = 0
  /\ audit = [NoAudit EXCEPT !.sessionRefunds = << <<>> >>]

\* the messaging collaborator asks about a message of u1 to u2 and charges
\* it, one call after the other
CostCanSend ==
  /\ \A q \in Procs : IsIdle(q)
  /\ \E p \in Procs, t \in MessageTypes, d \in DurationSeconds :
       CanSendBegin(p, "u1", "u2", t, d)

CostCharge ==
  /\ \A q \in Procs : IsIdle(q)
  /\ \E p \in Procs, m \in MessageIds, t \in MessageTypes, d \in DurationSeconds :
       ChargeBegin(p, m, 1, "u1", "u2", t, d)

CostNext ==
  \/ CostCanSend \/ CanSendCheck
  \/ CostCharge \/ ChargeCommit

SpecCost == InitCost /\ [][CostNext]_vars

\* ====================================================== the periodic sweep
\* autoPauseInactiveSessions as the scheduler calls it, period after period:
\* the findMany; the rows it returned are kept.
PeriodicAutoPauseBegin(p) ==
  /\ IsIdle(p)
  /\ LET inactiveSessions == InactiveSessions(SweepInactivityMinutes)
     IN IF inactiveSessions = {}
          THEN Return(p, "autoPauseInactiveSessions", "ok")
          ELSE Continue(p,
                 [pc |-> "autopause_update",
                  todo |-> [i \in inactiveSessions |-> chatSession[i]]])
  /\ UNCHANGED <<now, userMonetizationSettings, paymentVars, dbVars, calls, audit>>

PeriodicAutoPause == \E p \in Procs : PeriodicAutoPauseBegin(p)

PeriodicNext ==
  \/ Activate \/ ActivateCommit
  \/ Touch \/ TouchExpireCommit \/ TouchCommit
  \/ GetActive \/ GetActiveExpireCommit
  \/ Tick
  \/ PeriodicAutoPause \/ AutoPauseCommit

\* the sweep keeps running: a run is always started again, and a started
\* run goes through its rows
SpecPeriodic ==
  /\ InitUsage
  /\ [][PeriodicNext]_vars
  /\ WF_vars(PeriodicAutoPause)
  /\ WF_vars(AutoPauseCommit)

\* ================================================== failing sweep items
\* expireRequest: a statement of its transaction throws; the transaction
\* rolls back and the error leaves expireRequest.  autoExpireOldRequests
\* awaits expireRequest in a bare for loop, so the error leaves the sweep
\* too, with the requests not yet visited.
ExpireTxFail(p) ==
  /\ call[p].pc = "expire_commit"
  /\ rowLock' = rowLock \ {call[p].requestId}
  /\ IF call[p].from = "respond"
       THEN Return(p, "respondToRequest", "InternalServerError")
       ELSE Return(p, "autoExpireOldRequests", "InternalServerError")
  /\ UNCHANGED <<now, userMonetizationSettings, paymentVars, userBalance, chatSession,
                 contentCharge, serviceRequest, pendingBalance,
                 serviceTransaction, serviceSession, serviceNotification,
                 calls, audit>>

\* autoPauseInactiveSessions: the update of one row throws; the catch block
\* of the loop logs it and the loop goes on.
AutoPauseUpdateFail(p, sessionId) ==
  /\ call[p].pc = "autopause_update"
  /\ sessionId \in DOMAIN call[p].todo
  /\ LET todo == call[p].todo
         rest == [i \in (DOMAIN todo) \ {sessionId} |-> todo[i]]
     IN IF DOMAIN rest = {}
          THEN Return(p, "autoPauseInactiveSessions", "ok")
          ELSE Continue(p, [pc |-> "autopause_update", todo |-> rest])
  /\ UNCHANGED <<now, userMonetizationSettings, paymentVars, dbVars, calls, audit>>

ExpireFail == \E p \in Procs : ExpireTxFail(p)
AutoPauseFail == \E p \in Procs, i \in SessionIds : AutoPauseUpdateFail(p, i)

SweepFailNext ==
  \/ SweepTick \/ SweepDayTick
  \/ SweepAutoExpire \/ ExpireRequest \/ OpenTransaction \/ Expire \/ ExpireFail
  \/ SweepAutoPause \/ AutoPauseCommit \/ AutoPauseFail

SpecSweepFail == InitSweep /\ [][SweepFailNext]_vars

\* ================================================================ deposits
\* the stkCallback the gateway sends for a CheckoutRequestID, and sends again
\* when it retries: ResultCode 0 with the Amount of the payment, or a
\* non-zero ResultCode without CallbackMetadata (amount undefined, 0 here);
\* k0 is an id no payments row has
GatewayCallbacks ==
  [k \in CheckoutRequestIds \cup {"k0"} |->
     CASE k = "k1" -> [resultCode |-> 0, amount |-> 2]
       [] k = "k3" -> [resultCode |-> 0, amount |-> 3]
       [] OTHER -> [resultCode |-> 1032, amount |-> 0]]

\* payment_callbacks without its unique index
CallbackExistsMutant(paymentId) == FALSE

\* payment_callbacks_paymentId_key: a row of the payment is there already
CallbackExists(paymentId) ==
  \E n \in 1..Len(paymentCallback) : paymentCallback[n].paymentId = paymentId

\* tx.userBalance.upsert({ update: { availableBalance: { increment } },
\* create: { userId, availableBalance } })
DepositUpsert(ub, u, amount) ==
  IF ub[u].exists
    THEN [ub EXCEPT ![u].availableBalance = @ + amount]
    ELSE [ub EXCEPT ![u] = [NoBalance EXCEPT !.exists = TRUE,
                                             !.availableBalance = amount]]

\* processCallback up to its transaction: the payment of the
\* CheckoutRequestID (its status is not looked at), the amount, newStatus.
ProcessCallbackRead(p, checkoutRequestId) ==
  /\ Start(p)
  /\ LET stkCallback == GatewayCallbacks[checkoutRequestId]
     IN IF checkoutRequestId \notin DOMAIN payment
          THEN Return(p, "processCallback", "NotFound")
          ELSE Continue(p,
                 [pc |-> "callback_tx", paymentId |-> checkoutRequestId,
                  userId |-> payment[checkoutRequestId].userId,
                  resultCode |-> stkCallback.resultCode,
                  amount |-> stkCallback.amount,
                  newStatus |-> IF stkCallback.resultCode = 0
                                  THEN "COMPLETED" ELSE "FAILED"])
  /\ UNCHANGED <<now, userMonetizationSettings, paymentVars, dbVars, audit>>

\* the transaction of processCallback: payment.update (which holds the row
\* of the payment until the commit, so two transactions of one payment run
\* one after the other), paymentCallback.create, and for COMPLETED the
\* upsert of the balance.  When the payment has its callback row the create
\* fails, everything is rolled back and the catch block logs the error.
ProcessCallbackTx(p) ==
  /\ call[p].pc = "callback_tx"
  /\ LET c == call[p]
     IN IF CallbackExists(c.paymentId)
          THEN /\ Return(p, "processCallback", "ErrorLogged")
               /\ UNCHANGED <<payment, paymentCallback, userBalance>>
          ELSE /\ payment' = [payment EXCEPT ![c.paymentId].status = c.newStatus]
               /\ paymentCallback' = Append(paymentCallback,
                    [paymentId |-> c.paymentId, resultCode |-> c.resultCode,
                     amount |-> c.amount])
               /\ userBalance' =
                    IF c.newStatus = "COMPLETED"
                      THEN DepositUpsert(userBalance, c.userId, c.amount)
                      ELSE userBalance
               /\ Return(p, "processCallback", "ok")
  /\ UNCHANGED <<now, userMonetizationSettings, chatSession, contentCharge,
                 escrowVars, calls, audit>>

PaymentNext ==
  \/ \E p \in Procs, k \in DOMAIN GatewayCallbacks : ProcessCallbackRead(p, k)
  \/ \E p \in Procs : ProcessCallbackTx(p)

SpecPayment == Init /\ [][PaymentNext]_vars

\* ============================================================ money moved
\* the calls that move money, made by the users entitled to them: u2, who
\* holds the money in InitErrors, buys and requests; u1 sends u2 images
MoneyPurchase == \E p \in Procs : PurchaseBegin(p, "u2", "u1", 2)
MoneyCancel == \E p \in Procs, i \in SessionIds : CancelBegin(p, i, chatSession[i].buyerId)
MoneyCreateRequest == \E p \in Procs : CreateRequestBegin(p, "u2", "u1", "CHAT", 2)
MoneyRespond == \E p \in Procs, r \in RequestIds, a \in BOOLEAN : RespondBegin(p, serviceRequest[r].providerId, r, a)
MoneyCancelRequest == \E p \in Procs, r \in RequestIds : CancelRequestBegin(p, serviceRequest[r].requesterId, r)
MoneyCharge == \E p \in Procs, m \in MessageIds : ChargeBegin(p, m, 1, "u1", "u2", "IMAGE", 0)

\* every operation that moves money, from the state of InitErrors
MoneyNext ==
  \/ MoneyPurchase \/ PurchaseCommit
  \/ MoneyCancel \/ CancelCommit
  \/ MoneyCharge \/ ChargeCommit
  \/ MoneyCreateRequest \/ CreateRequestCommit
  \/ MoneyRespond \/ MoneyCancelRequest \/ ExpireRequest
  \/ OpenTransaction
  \/ Accept \/ Reject \/ CancelRequestDone \/ Expire
  \/ DayTick

SpecMoney == InitErrors /\ [][MoneyNext]_vars

\* =================================================================== claims
Holds == 1..Len(pendingBalance)

\* C1: every user's available balance is >= 0 in every committed state.
C1_AvailableNonNegative ==
  \A u \in Users : userBalance[u].availableBalance >= 0

\* C2: any number of createContentCharge calls with one messageId leave at
\* most one content_charges row of that messageId and move funds for it at
\* most once (exactly once when the row exists); a call whose messageId
\* already has a row leaves every balance as it was.
C2_OneRowOneMove ==
  \A m \in MessageIds :
    LET rows == {ch \in contentCharge : ch.messageId = m}
    IN /\ Cardinality(rows) <= 1
       /\ audit.chargeMoves[m] = Cardinality(rows)

C2_RetryMovesNothing ==
  \A p \in Procs :
    (/\ call[p].pc = "charge_tx"
     /\ call'[p].pc = "idle"
     /\ \E ch \in contentCharge : ch.messageId = call[p].messageId)
    => userBalance' = userBalance /\ contentCharge' = contentCharge

C2_ChargeIdempotent == [](C2_OneRowOneMove) /\ [][C2_RetryMovesNothing]_vars

\* a second call for a charged messageId has run into the unique index
C2_Witness ==
  /\ returned = [op |-> "createContentCharge",
                 outcome |-> "InternalServerError(unique messageId)"]
  /\ \E m \in MessageIds : audit.chargeMoves[m] = 1

\* C3: a hold leaves LOCKED at most once and its amount is paid out at most
\* once, to the provider (RELEASED) or back to the requester (REFUNDED,
\* EXPIRED), whatever the interleaving of accept, reject, cancelRequest,
\* expireRequest and autoExpireOldRequests on its request.
C3_PaidOutOnce ==
  \A h \in Holds :
    LET hold == pendingBalance[h]
        paid == audit.holdPayouts[h]
        request == serviceRequest[hold.sourceId]
    IN /\ Len(paid) <= 1
       /\ (hold.status = "LOCKED") <=> (paid = << >>)
       /\ paid # << >> =>
            /\ paid[1].amount = hold.amount
            /\ hold.status = "RELEASED" => paid[1].to = request.providerId
            /\ hold.status \in {"REFUNDED", "EXPIRED"} => paid[1].to = hold.userId

C3_LeavesLockedOnce ==
  \A h \in Holds :
    pendingBalance[h].status # "LOCKED"
      => pendingBalance'[h].status = pendingBalance[h].status

C3_HoldSingleShot == [](C3_PaidOutOnce) /\ [][C3_LeavesLockedOnce]_vars

\* two transactions committed on one request (its status was written over
\* after the release) and the hold was paid out once
C3_Witness ==
  \E h \in Holds :
    /\ pendingBalance[h].status = "RELEASED"
    /\ serviceRequest[pendingBalance[h].sourceId].status \in {"CANCELLED", "REJECTED"}
    /\ Len(audit.holdPayouts[h]) = 1

\* C4: once a request has left PENDING, no operation changes its status again.
C4_StatusChangesOnce ==
  [][\A r \in RequestIds :
       serviceRequest[r].status # "PENDING"
         => serviceRequest'[r].status = serviceRequest[r].status]_vars

\* C5: of two concurrent cancels of one session exactly one wins: the refund
\* is moved from seller to buyer at most once.
C5_RefundedOnce ==
  \A i \in SessionIds :
    Cardinality({k \in DOMAIN audit.sessionRefunds[i] :
                   audit.sessionRefunds[i][k] > 0}) <= 1

LiveSessions(buyerId, sellerId) ==
  {i \in SessionIds : /\ chatSession[i].buyerId = buyerId
                      /\ chatSession[i].sellerId = sellerId
                      /\ ~chatSession[i].isCancelled
                      /\ chatSession[i].usedMinutes < chatSession[i].durationMinutes}

\* C6: at most one session per ordered (buyer, seller) pair is neither
\* cancelled nor fully consumed.
C6_OneLiveSessionPerPair ==
  \A b \in Users, s \in Users : Cardinality(LiveSessions(b, s)) <= 1

\* C7: a cancel that commits on the row it read moves
\* price / durationMinutes * max(0, durationMinutes - used) from the seller's
\* available balance to the buyer's (the buyer's rises by it, the seller's
\* falls by it, nobody else's changes), where used is usedMinutes plus, for
\* a running session, the time since it was last active; the full price
\* with nothing used, half the price with half the minutes used.
C7_CancelStep ==
  \A p \in Procs :
    (/\ call[p].pc = "cancel_tx"
     /\ call'[p].pc = "idle"
     /\ chatSession[call[p].sessionId] = call[p].session)
    => LET s == call[p].session
           elapsed == IF s.isPaused THEN 0 ELSE call[p].at - LastActive(s)
           used == s.usedMinutes + elapsed
           left == IF s.durationMinutes > used THEN s.durationMinutes - used ELSE 0
           refund == (s.price \div s.durationMinutes) * left
       IN /\ \A u \in Users :
               userBalance'[u].availableBalance
                 = userBalance[u].availableBalance
                     + (IF u = s.buyerId THEN refund ELSE 0)
                     - (IF u = s.sellerId THEN refund ELSE 0)
          /\ used = 0 => refund = s.price
          /\ 2 * used = s.durationMinutes => 2 * refund = s.price

C7_ProRataRefund == [][C7_CancelStep]_vars

\* a session cancelled after half of its minutes, refunded half of its price
C7_Witness ==
  \E i \in SessionIds :
    /\ chatSession[i].isCancelled
    /\ 2 * chatSession[i].usedMinutes = chatSession[i].durationMinutes
    /\ audit.sessionRefunds[i] = << chatSession[i].price \div 2 >>

\* C8: every committed change of a user's available or pending balance comes
\* with a ledger entry appended for that user in the same transaction.
C8_BalanceChangeHasEntry ==
  [][\A u \in Users :
       (\/ userBalance'[u].availableBalance # userBalance[u].availableBalance
        \/ userBalance'[u].pendingBalance # userBalance[u].pendingBalance)
       => \E k \in (Len(serviceTransaction) + 1)..Len(serviceTransaction') :
            serviceTransaction'[k].userId = u]_vars

SignedAmount(entry) ==
  IF entry.transactionType \in {"REFUND", "EARNING"}
    THEN entry.amount
    ELSE 0 - entry.amount

\* C9: for every ledger entry, previousBalance and newBalance are the user's
\* balance right before and right after the recorded mutation, and
\* newBalance - previousBalance is the entry's signed amount.
C9_LedgerMatchesBalance ==
  \A k \in 1..Len(serviceTransaction) :
    LET entry == serviceTransaction[k]
        actual == audit.ledgerActual[k]
    IN /\ entry.previousBalance = actual.availableBefore
       /\ entry.newBalance = actual.availableAfter
       /\ entry.newBalance - entry.previousBalance = SignedAmount(entry)

\* C10: every user's pending balance is >= 0 in every committed state.
C10_PendingNonNegative ==
  \A u \in Users : userBalance[u].pendingBalance >= 0

\* a locked amount has left the pending balance again, which is back at 0
C10_Witness ==
  \E h \in Holds :
    /\ pendingBalance[h].status # "LOCKED"
    /\ pendingBalance[h].amount > 0
    /\ userBalance[pendingBalance[h].userId].pendingBalance = 0

\* C11: a session whose elapsed time has been finalized (it is paused again,
\* cancelled or found expired) has usedMinutes <= durationMinutes.
C11_UsedWithinDuration ==
  \A i \in SessionIds :
    chatSession[i].isPaused
      => chatSession[i].usedMinutes <= chatSession[i].durationMinutes

\* C12: the usedMinutes of a session that is not cancelled never decreases,
\* whatever the interleaving of activate, touch, pause, getActiveSession and
\* autoPauseInactiveSessions.
C12_UsedNeverDecreases ==
  [][\A i \in SessionIds :
       ~chatSession[i].isCancelled
         => chatSession'[i].usedMinutes >= chatSession[i].usedMinutes]_vars

\* a call has ended in this step
CallEnded ==
  \E p \in Procs : call'[p].pc = "idle" /\ (call[p].pc # "idle" \/ calls' # calls)

\* C13: a purchaseChatTime, createContentCharge or createServiceRequest call
\* that fails (before its transaction or inside it) leaves every balance,
\* ledger entry, session, request, hold and charge as it was.
C13_FailureChangesNothing ==
  [][(/\ CallEnded
      /\ returned'.op \in {"purchaseChatTime", "createContentCharge",
                           "createServiceRequest"}
      /\ returned'.outcome \notin {"ok", "null"})
     => dbVars' = dbVars]_vars

\* a purchase and a request were rolled back inside their transactions
\* after another call had moved money
C13_Witness ==
  /\ returned.outcome \in {"InternalServerError", "BadRequest(failed)"}
  /\ \E u \in Users : userBalance[u].totalSpent > 0 \/ userBalance[u].pendingBalance > 0

\* the rows of every table
Persisted ==
  <<userBalance, chatSession, contentCharge, serviceRequest, pendingBalance,
    serviceTransaction, serviceSession, serviceNotification, payment,
    paymentCallback>>

\* a call has ended in this step by throwing
ErrorEnded ==
  /\ CallEnded
  /\ returned'.outcome \notin {"ok", "null", "session"}

SessionExpiredByTouch ==
  returned' = [op |-> "updateSessionActivity", outcome |-> "SessionExpired"]

RequestExpiredByRespond ==
  returned' = [op |-> "respondToRequest", outcome |-> "RequestExpired"]

PurchaseCommitted ==
  /\ returned' = [op |-> "purchaseChatTime", outcome |-> "ok"]
  /\ Len(chatSession') = Len(chatSession) + 1

C15_PurchaseStep ==
  LET session == chatSession'[Len(chatSession')]
      p == session.price
  IN /\ \A u \in Users :
          /\ userBalance'[u].availableBalance
               = userBalance[u].availableBalance
                 - (IF u = session.buyerId THEN p ELSE 0)
                 + (IF u = session.sellerId THEN p ELSE 0)
          /\ userBalance'[u].pendingBalance = userBalance[u].pendingBalance
     /\ userBalance'[session.sellerId].exists
     /\ \A i \in SessionIds : chatSession'[i] = chatSession[i]
     /\ session.usedMinutes = 0
     /\ session.isPaused
     /\ session.endTime = session.startTime

\* C15: a successful purchaseChatTime of price p takes exactly p from the
\* buyer's available balance, adds exactly p to the seller's (whose row is
\* created when absent), changes no pending balance, and creates a session
\* with usedMinutes = 0, isPaused and endTime = startTime.
C15_PurchaseEffect == [][PurchaseCommitted => C15_PurchaseStep]_vars

\* a purchase has created the seller's balance row
C15_Witness ==
  /\ returned = [op |-> "purchaseChatTime", outcome |-> "ok"]
  /\ \E i \in SessionIds :
       LET s == chatSession[i]
       IN /\ s.buyerId # s.sellerId
          /\ s.usedMinutes = 0 /\ s.isPaused
          /\ userBalance[s.sellerId].availableBalance = s.price
          /\ userBalance[s.sellerId].totalEarnings = s.price
          /\ userBalance[s.buyerId].totalSpent = s.price

\* createServiceRequest passes its balance check in this step
C16_Passed(p) ==
  call[p].pc = "idle" /\ call'[p].pc = "create_tx"

\* the transaction of createServiceRequest commits in this step
CreateRequestCommitted ==
  /\ returned' = [op |-> "createServiceRequest", outcome |-> "ok"]
  /\ Len(serviceRequest') = Len(serviceRequest) + 1

C16_CreateStep ==
  LET id == Len(serviceRequest')
      request == serviceRequest'[id]
      hold == pendingBalance'[Len(pendingBalance')]
      u == request.requesterId
  IN /\ userBalance'[u].availableBalance
          = userBalance[u].availableBalance - request.price
     /\ userBalance'[u].pendingBalance
          = userBalance[u].pendingBalance + request.price
     /\ \A v \in Users \ {u} : userBalance'[v] = userBalance[v]
     /\ request.status = "PENDING"
     /\ Len(pendingBalance') = Len(pendingBalance) + 1
     /\ hold = [userId |-> u, amount |-> request.price, status |-> "LOCKED",
                sourceId |-> id]
     /\ \A r \in RequestIds : serviceRequest'[r] = serviceRequest[r]
     /\ \A h \in 1..Len(pendingBalance) : pendingBalance'[h] = pendingBalance[h]

\* C16: createServiceRequest of price p goes on to its transaction only when
\* the requester's available balance, as the call read it, is at least p;
\* when it fails with InsufficientFunds no row has changed; when it commits,
\* the requester's available balance is down by p and the pending balance up
\* by p, a LOCKED hold of p and a PENDING request exist, and no other user's
\* balance (the provider's included) has changed.
C16_CreateRequestEffect ==
  [][/\ \A p \in Procs :
          C16_Passed(p) =>
            /\ userBalance[call'[p].requesterId].exists
            /\ userBalance[call'[p].requesterId].availableBalance >= call'[p].price
            /\ dbVars' = dbVars
     /\ (CallEnded /\ returned' = [op |-> "createServiceRequest",
                                    outcome |-> "InsufficientFunds"])
          => dbVars' = dbVars
     /\ CreateRequestCommitted => C16_CreateStep]_vars

\* a request has been created and its price is locked
C16_Witness ==
  /\ returned = [op |-> "createServiceRequest", outcome |-> "ok"]
  /\ \E r \in RequestIds :
       LET request == serviceRequest[r]
       IN /\ request.status = "PENDING"
          /\ FindLockedHold(request.requesterId, r) # {}
          /\ userBalance[request.requesterId].pendingBalance = request.price
          /\ userBalance[request.requesterId].availableBalance = 8 - request.price
          /\ ~userBalance[request.providerId].exists

\* request r goes from PENDING to the given status in this step
Becomes(r, status) ==
  serviceRequest[r].status = "PENDING" /\ serviceRequest'[r].status = status

C17_AcceptStep(r) ==
  LET request == serviceRequest[r]
      u == request.requesterId
      v == request.providerId
      p == request.price
      sessions == {ss \in serviceSession' : ss.requestId = r}
  IN /\ userBalance'[u] = [userBalance[u] EXCEPT !.pendingBalance = @ - p]
     /\ userBalance'[v].exists
     /\ userBalance'[v].availableBalance = userBalance[v].availableBalance + p
     /\ userBalance'[v].totalEarnings = userBalance[v].totalEarnings + p
     /\ userBalance'[v].pendingBalance = userBalance[v].pendingBalance
     /\ \A w \in Users \ {u, v} : userBalance'[w] = userBalance[w]
     /\ FindLockedHold(u, r) # {}
     /\ \A h \in FindLockedHold(u, r) : pendingBalance'[h].status = "RELEASED"
     /\ Cardinality(sessions) = 1
     /\ {ss \in serviceSession : ss.requestId = r} = {}
     /\ \A ss \in sessions :
          /\ ss.isPaid
          /\ ss.endTime = ss.startTime + request.duration
          /\ ss.startTime = now

\* C17: the step that accepts a PENDING request of price p takes p from the
\* requester's pending balance and leaves the requester's available balance,
\* adds p to the provider's available balance and total earnings, marks the
\* hold RELEASED and the request ACCEPTED, and creates the one paid service
\* session of the request, with endTime = startTime + duration.
C17_AcceptEffect ==
  [][\A r \in RequestIds : Becomes(r, "ACCEPTED") => C17_AcceptStep(r)]_vars

\* a request has been accepted and paid to a provider who had no row
C17_Witness ==
  /\ returned = [op |-> "respondToRequest", outcome |-> "ok"]
  /\ \E r \in RequestIds :
       LET request == serviceRequest[r]
       IN /\ request.status = "ACCEPTED"
          /\ \E ss \in serviceSession : ss.requestId = r /\ ss.isPaid
          /\ userBalance[request.providerId].totalEarnings = request.price
          /\ userBalance[request.requesterId].pendingBalance = 0
          /\ \E h \in 1..Len(pendingBalance) :
               pendingBalance[h].sourceId = r /\ pendingBalance[h].status = "RELEASED"

\* the positions of the LOCK entry of request r in the ledger
LockEntries(r) ==
  {k \in 1..Len(serviceTransaction) :
     /\ serviceTransaction[k].requestId = r
     /\ serviceTransaction[k].transactionType = "LOCK"}

C18_RejectStep(r) ==
  LET request == serviceRequest[r]
      u == request.requesterId
      p == request.price
  IN /\ userBalance'[u] = [userBalance[u] EXCEPT !.availableBalance = @ + p,
                                                  !.pendingBalance = @ - p]
     /\ \A w \in Users \ {u} : userBalance'[w] = userBalance[w]
     /\ FindLockedHold(u, r) # {}
     /\ \A h \in FindLockedHold(u, r) : pendingBalance'[h].status = "REFUNDED"
     /\ serviceSession' = serviceSession
     /\ \A k \in LockEntries(r) :
          LET lock == audit.ledgerActual[k]
          IN /\ userBalance'[u].availableBalance - userBalance[u].availableBalance
                  = lock.availableBefore - lock.availableAfter
             /\ userBalance'[u].pendingBalance - userBalance[u].pendingBalance
                  = lock.pendingBefore - lock.pendingAfter
             /\ (/\ userBalance[u].availableBalance = lock.availableAfter
                 /\ userBalance[u].pendingBalance = lock.pendingAfter)
                  => /\ userBalance'[u].availableBalance = lock.availableBefore
                     /\ userBalance'[u].pendingBalance = lock.pendingBefore

\* C18: the step that rejects a PENDING request undoes what
\* createServiceRequest did to the requester's balance (available and
\* pending are back at their values before the request when nothing else
\* moved them in between), changes no other balance, marks the hold
\* REFUNDED and the request REJECTED.
C18_RejectRoundTrip ==
  [][\A r \in RequestIds : Becomes(r, "REJECTED") => C18_RejectStep(r)]_vars

\* a request has been rejected and the requester holds the initial 8 again
C18_Witness ==
  /\ returned = [op |-> "respondToRequest", outcome |-> "ok"]
  /\ \E r \in RequestIds :
       LET request == serviceRequest[r]
       IN /\ request.status = "REJECTED"
          /\ userBalance[request.requesterId].availableBalance = 8
          /\ userBalance[request.requesterId].pendingBalance = 0
          /\ ~userBalance[request.providerId].exists
          /\ \E h \in 1..Len(pendingBalance) :
               pendingBalance[h].sourceId = r /\ pendingBalance[h].status = "REFUNDED"

\* respondToRequest leaves its checks in this step, towards acceptRequest or
\* rejectRequest
C19_Proceeds(p) ==
  call[p].pc = "idle" /\ call'[p].pc \in {"accept_tx", "reject_tx"}

\* the expiry that respondToRequest forced commits in this step
C19_Expires(p) ==
  /\ call[p].pc = "expire_commit"
  /\ call[p].from = "respond"
  /\ call'[p].pc = "idle"

C19_ExpireStep(p) ==
  LET r == call[p].requestId
      request == serviceRequest[r]
      u == request.requesterId
  IN /\ serviceRequest'[r].status = "EXPIRED"
     /\ FindLockedHold(u, r) # {}
     /\ \A h \in FindLockedHold(u, r) : pendingBalance'[h].status = "EXPIRED"
     /\ userBalance'[u] = [userBalance[u] EXCEPT
                             !.availableBalance = @ + request.price,
                             !.pendingBalance = @ - request.price]
     /\ \A w \in Users \ {u} : userBalance'[w] = userBalance[w]
     /\ serviceSession' = serviceSession
     /\ returned' = [op |-> "respondToRequest", outcome |-> "RequestExpired"]

\* C19: respondToRequest never goes on to accept or reject a request created
\* more than EXPIRATION_DAYS ago; the expiry it forces on a PENDING request
\* marks the request EXPIRED and the hold EXPIRED, returns the locked amount
\* to the requester, creates no service session, pays the provider nothing,
\* and the call fails with RequestExpired.
C19_StaleRespondExpires ==
  [][\A p \in Procs :
       /\ C19_Proceeds(p)
            => ~(serviceRequest[call'[p].requestId].createdAt < WeekAgo)
       /\ (C19_Expires(p) /\ serviceRequest[call[p].requestId].status = "PENDING")
            => C19_ExpireStep(p)]_vars

\* a stale request was answered and expired instead
C19_Witness ==
  /\ returned = [op |-> "respondToRequest", outcome |-> "RequestExpired"]
  /\ serviceSession = {}
  /\ \E r \in RequestIds :
       LET request == serviceRequest[r]
       IN /\ request.status = "EXPIRED"
          /\ userBalance[request.requesterId].availableBalance = 8
          /\ userBalance[request.requesterId].pendingBalance = 0
          /\ ~userBalance[request.providerId].exists
          /\ \E h \in 1..Len(pendingBalance) :
               pendingBalance[h].sourceId = r /\ pendingBalance[h].status = "EXPIRED"

\* C20: once a run of autoExpireOldRequests or of autoPauseInactiveSessions
\* has returned, further runs of the same sweeper with nothing in between
\* change no row: no request is refunded again and no idle interval is added
\* to usedMinutes again.
C20_SecondRunChangesNothing ==
  [][returned.op \in SweeperOps
       => /\ Persisted' = Persisted
          /\ audit' = audit]_vars

\* the two stale requests were expired and refunded by the first run of
\* autoExpireOldRequests, and a second run has returned
C20_Witness ==
  /\ Quiet
  /\ calls >= 2
  /\ returned = [op |-> "autoExpireOldRequests", outcome |-> "ok"]
  /\ \A r \in RequestIds :
       /\ serviceRequest[r].status = "EXPIRED"
       /\ pendingBalance[r].status = "EXPIRED"
       /\ Len(audit.holdPayouts[r]) = 1
  /\ \A u \in {"u1", "u2"} :
       userBalance[u].availableBalance = 4 /\ userBalance[u].pendingBalance = 0

\* the transaction of cancelRequest commits in this step
C21_Cancels(p) ==
  call[p].pc = "cancelreq_commit" /\ call'[p].pc = "idle"

C21_CancelStep(p) ==
  LET r == call[p].requestId
      request == serviceRequest[r]
      u == request.requesterId
  IN /\ request.status = "PENDING"
     /\ serviceRequest'[r].status = "CANCELLED"
     /\ FindLockedHold(u, r) # {}
     /\ \A h \in FindLockedHold(u, r) : pendingBalance'[h].status = "REFUNDED"
     /\ userBalance'[u] = [userBalance[u] EXCEPT
                             !.availableBalance = @ + request.price,
                             !.pendingBalance = @ - request.price]
     /\ \A w \in Users \ {u} : userBalance'[w] = userBalance[w]

\* C21: cancelRequest commits only on a request that is PENDING, and then
\* returns the locked amount to the requester's available balance, marks the
\* hold REFUNDED and the request CANCELLED; a cancelRequest that fails
\* changes no request, hold or balance.
C21_CancelContract ==
  [][/\ \A p \in Procs : C21_Cancels(p) => C21_CancelStep(p)
     /\ (CallEnded /\ returned'.op = "cancelRequest" /\ returned'.outcome # "ok")
          => <<serviceRequest, pendingBalance, userBalance>>'
               = <<serviceRequest, pendingBalance, userBalance>>]_vars

\* the charges inserted in this step
NewCharges == contentCharge' \ contentCharge

\* the sender of the charge is the buyer of a live session with the
\* recipient that has minutes left, and the charge names that session
ValidPaidSession(ch) ==
  /\ ch.sessionId \in SessionIds
  /\ LET session == chatSession[ch.sessionId]
     IN /\ session.buyerId = ch.senderId
        /\ session.sellerId = ch.recipientId
        /\ session.isActive
        /\ ~session.isCancelled
        /\ session.usedMinutes < session.durationMinutes

\* C22: createContentCharge debits a sender only when the sender holds an
\* active, still-valid paid session with the recipient, the one the charge
\* names.
C22_ChargeNeedsSession ==
  [][\A ch \in NewCharges : ValidPaidSession(ch)]_vars

\* canSendMessage returns from a call about a TEXT message in this step
C23_TextAnswered(p) ==
  /\ call[p].pc \in {"cansend_read", "cansend_expire"}
  /\ call[p].contentType = "TEXT"
  /\ call'[p].pc = "idle"

\* C23: for a TEXT message canSendMessage never answers that a session is
\* required and never reports a cost, and createContentCharge never inserts
\* a charge (so moves no funds).
C23_TextIsFree ==
  [][/\ \A p \in Procs :
          C23_TextAnswered(p) => returned'.outcome = "NotRequired"
     /\ \A ch \in NewCharges : ch.contentType # "TEXT"]_vars

\* what canSendMessage reports for a message, the sender holding a session
AuthorizedCost(settings, contentType, durationSeconds) ==
  IF ~settings.exists \/ ~settings.isEnabled THEN "none"
  ELSE AdditionalCost(settings, contentType, durationSeconds)

\* what createContentCharge bills for a message
ChargedCost(settings, contentType, durationSeconds) ==
  IF ~settings.exists \/ ~settings.isEnabled THEN "free"
  ELSE ContentCost(settings, contentType, durationSeconds)

C24_SameCost(settings, contentType, durationSeconds) ==
  LET authorized == AuthorizedCost(settings, contentType, durationSeconds)
      charged == ChargedCost(settings, contentType, durationSeconds)
  IN IF charged = "free" THEN authorized = "none"
     ELSE IF charged = "DurationRequired" THEN authorized = "DurationRequired"
     ELSE /\ authorized # "none"
          /\ authorized # "DurationRequired"
          /\ authorized = charged
          /\ charged[2] = (IF contentType = "IMAGE" THEN 1 ELSE durationSeconds)
          /\ charged[3] = charged[1] * charged[2]

\* C24: for every pricing configuration of the recipient, content type and
\* durationSeconds, createContentCharge computes the cost canSendMessage
\* reports (basePrice, units and total; units 1 for an image, durationSeconds
\* for audio and video) and bills nothing exactly when canSendMessage
\* reports no additional cost; every charge inserted carries that cost.
C24_ChargeCostIsAuthorizeCost ==
  [][/\ \A u \in Users, t \in MessageTypes, d \in 0..MaxSeconds :
          C24_SameCost(userMonetizationSettings[u], t, d)
     /\ \A ch \in NewCharges :
          \E d \in DurationSeconds :
            <<ch.basePrice, ch.units, ch.totalAmount>>
              = AuthorizedCost(userMonetizationSettings[ch.recipientId],
                               ch.contentType, d)]_vars

\* a video of 2 seconds at 2 a second was charged 4 and canSendMessage then
\* reported the cost of another message
C24_Witness ==
  /\ returned = [op |-> "canSendMessage", outcome |-> "AdditionalCost"]
  /\ \E ch \in contentCharge :
       /\ ch.contentType = "VIDEO"
       /\ ch.units = 2
       /\ ch.totalAmount = 4

\* createContentCharge passes its balance check in this step
C25_Passed(p) ==
  call[p].pc = "idle" /\ call'[p].pc = "charge_tx"

C25_ChargeStep(ch) ==
  /\ NewCharges = {ch}
  /\ ~ChargeExists(ch.messageId)
  /\ ch.isPaid
  /\ \A u \in Users :
       /\ userBalance'[u].availableBalance
            = userBalance[u].availableBalance
              - (IF u = ch.senderId THEN ch.totalAmount ELSE 0)
              + (IF u = ch.recipientId THEN ch.totalAmount ELSE 0)
       /\ userBalance'[u].pendingBalance = userBalance[u].pendingBalance

\* C25: createContentCharge goes on to its writes only when the sender's
\* available balance, as the call read it, covers the cost c; when it fails
\* with InsufficientFunds no balance has changed and no charge row was
\* inserted; when it commits, the one step inserts the charge (isPaid, a
\* messageId not charged before), takes exactly c from the sender's available
\* balance and adds exactly c to the recipient's.
C25_ChargeEffect ==
  [][/\ \A p \in Procs :
          C25_Passed(p) =>
            /\ userBalance[call'[p].senderId].exists
            /\ userBalance[call'[p].senderId].availableBalance
                 >= call'[p].totalAmount
            /\ dbVars' = dbVars
     /\ (CallEnded /\ returned' = [op |-> "createContentCharge",
                                    outcome |-> "InsufficientFunds"])
          => dbVars' = dbVars
     /\ (NewCharges = {}) => (audit'.chargeMoves = audit.chargeMoves)
     /\ \A ch \in NewCharges : C25_ChargeStep(ch)]_vars

\* an image was charged 3 to the buyer of a session, to the seller's credit
C25_Witness ==
  /\ returned = [op |-> "createContentCharge", outcome |-> "ok"]
  /\ \E ch \in contentCharge :
       /\ ch.isPaid
       /\ ch.totalAmount = 3
       /\ ch.senderId # ch.recipientId
       /\ userBalance[ch.senderId].availableBalance = 8 - 4 - 3
       /\ userBalance[ch.recipientId].availableBalance = 4 + 3

\* createContentCharge ends in this step, for a messageId that has a row
C26_Retried(p) ==
  /\ call[p].pc = "charge_tx"
  /\ call'[p].pc = "idle"
  /\ ChargeExists(call[p].messageId)

\* C26: a createContentCharge whose messageId already has a ContentCharge
\* row returns (the existing row) instead of ending in an error, and moves
\* no funds.
C26_RetryReturnsRow ==
  [][\A p \in Procs :
       C26_Retried(p) =>
         /\ returned' = [op |-> "createContentCharge", outcome |-> "ok"]
         /\ userBalance' = userBalance
         /\ contentCharge' = contentCharge]_vars

\* session i is running and its endTime has passed
RunningPastEnd(i) ==
  /\ i \in SessionIds
  /\ chatSession[i].isActive
  /\ ~chatSession[i].isCancelled
  /\ ~chatSession[i].isPaused
  /\ now > chatSession[i].endTime

\* session i is terminal: not active any more, or cancelled
Terminal(i) ==
  /\ i \in SessionIds
  /\ ~chatSession[i].isActive \/ chatSession[i].isCancelled

\* C27: with the sweep running for ever, a running session whose endTime
\* has passed eventually reaches a terminal state.
C27_ExpiryEventuallyDetected ==
  \A i \in 1..MaxSessions : RunningPastEnd(i) ~> Terminal(i)

\* a run of autoExpireOldRequests ends in this step
C28_ExpireRunEnds(p) ==
  /\ call[p].pc \in {"expire_read", "expire_commit"}
  /\ call[p].from = "sweep"
  /\ call'[p].pc = "idle"

\* a run of autoPauseInactiveSessions ends in this step
C28_PauseRunEnds(p) ==
  /\ call[p].pc = "autopause_update"
  /\ call'[p].pc = "idle"

\* C28: a run of a sweeper ends only when none of the items it selected is
\* left to visit, whether the item it visited last was processed or failed;
\* an item whose processing fails is left unchanged.
C28_SweepContinues ==
  [][\A p \in Procs :
       /\ C28_ExpireRunEnds(p) =>
            /\ IF call[p].pc = "expire_read"
                 THEN Cardinality(call[p].todo) = 1
                 ELSE call[p].todo = {}
            /\ returned'.outcome # "ok" => Persisted' = Persisted
       /\ C28_PauseRunEnds(p) => Cardinality(DOMAIN call[p].todo) = 1]_vars

\* C29: a session that is no longer active is cancelled or fully consumed.
C29_TerminalIsConsumedOrCancelled ==
  \A i \in SessionIds :
     ~chatSession[i].isActive =>
        \/ chatSession[i].isCancelled
        \/ chatSession[i].usedMinutes = chatSession[i].durationMinutes

\* call p reads a running session in this step and goes on to finalize it:
\* by pause, by cancel, or by expiry
C30_Finalizes(p) ==
  /\ call[p].pc \in {"idle", "touch_activate"}
  /\ call'[p].pc \in {"pause_update", "cancel_tx", "touch_expire",
                      "getactive_expire"}
  /\ ~chatSession[call'[p].sessionId].isPaused

\* the usedMinutes the finalizing call writes
C30_TotalUsed(c) ==
  IF c.pc = "cancel_tx" THEN CancelTotalUsed(c.session, c.at) ELSE c.totalUsed

\* the time a running session has run since its activation, capped at the
\* quota it had left
C30_RanSinceActivation(session) ==
  Min(session.durationMinutes - session.usedMinutes, now - session.resumedAt)

\* C30: when a running session is finalized by pause, cancel or expiry, the
\* usedMinutes written is the usedMinutes of the row plus no less than the
\* whole time since the activation (capped at the remaining quota),
\* whatever calls of updateSessionActivity happened in between.
C30_ElapsedAccounted ==
  [][\A p \in Procs :
       C30_Finalizes(p) =>
         LET session == chatSession[call'[p].sessionId]
         IN C30_TotalUsed(call'[p]) >=
              session.usedMinutes + C30_RanSinceActivation(session)]_vars

\* session i is running
Running(i) ==
  /\ chatSession[i].isActive
  /\ ~chatSession[i].isCancelled
  /\ ~chatSession[i].isPaused

\* C31: for a running session the expiry test of updateSessionActivity and
\* getActiveSession (now > endTime) holds exactly when the remaining time
\* that formatChatSessionInfo reports is used up.
C31_ExpiryIsRemainingZero ==
  \A i \in SessionIds :
     Running(i) =>
       ((now > chatSession[i].endTime) <=> (Remaining(chatSession[i]) <= 0))

\* C32: the row of a running session is one that a serial order of the
\* calls produces: activateSession writes endTime = resumedAt + (the quota
\* left in usedMinutes), and no call changes usedMinutes of a session it
\* leaves running, so no update computed from a stale read is in the row.
C32_NoLostUpdate ==
  \A i \in SessionIds :
     Running(i) /\ chatSession[i].resumedAt # NullTime =>
       chatSession[i].endTime =
         chatSession[i].resumedAt
           + (chatSession[i].durationMinutes - chatSession[i].usedMinutes)

\* activateSession has passed its guards in this step
C33_Passed(p) ==
  /\ call[p].pc # "activate_update"
  /\ call'[p].pc = "activate_update"

\* activateSession writes its update in this step
C33_Activated(p) ==
  /\ call[p].pc = "activate_update"
  /\ call'[p].pc = "idle"

\* activateSession ends in this step by throwing
C33_Failed ==
  /\ \E p \in Procs : call[p].pc \in {"idle", "touch_activate"} /\ call'[p] # call[p]
  /\ \A p \in Procs : call'[p].pc \notin {"activate_update", "touch_activate"}
  /\ returned'.op = "activateSession"
  /\ returned'.outcome # "ok"

\* the guards of activateSession fail on session i
C33_NotActivable(i) ==
  \/ ~chatSession[i].isActive
  \/ chatSession[i].isCancelled
  \/ chatSession[i].durationMinutes - chatSession[i].usedMinutes <= 0

\* C33: activateSession passes its guards only on an active, not cancelled
\* session with remaining = durationMinutes - usedMinutes > 0, and then sets
\* isPaused = false, resumedAt = lastActiveAt = now and
\* endTime = now + remaining, leaving usedMinutes and all balances as they
\* are; when a guard fails it throws and changes nothing.
C33_ActivateContract ==
  [][/\ \A p \in Procs :
          /\ C33_Passed(p) =>
               LET session == chatSession[call'[p].sessionId]
               IN /\ ~C33_NotActivable(call'[p].sessionId)
                  /\ call'[p].at = now
                  /\ call'[p].endTime =
                       now + (session.durationMinutes - session.usedMinutes)
                  /\ Persisted' = Persisted
          /\ C33_Activated(p) =>
               LET c == call[p]
               IN /\ chatSession' = [chatSession EXCEPT ![c.sessionId] =
                        [@ EXCEPT !.isPaused = FALSE, !.resumedAt = c.at,
                                  !.lastActiveAt = c.at, !.endTime = c.endTime]]
                  /\ userBalance' = userBalance
                  /\ pendingBalance' = pendingBalance
                  /\ returned' = [op |-> "activateSession", outcome |-> "ok"]
     /\ C33_Failed =>
          /\ \E i \in SessionIds : C33_NotActivable(i)
          /\ Persisted' = Persisted]_vars

\* a session with minutes already used has been activated again
C33_Witness ==
  /\ returned = [op |-> "activateSession", outcome |-> "ok"]
  /\ \E i \in SessionIds :
       /\ ~chatSession[i].isPaused
       /\ chatSession[i].usedMinutes > 0
       /\ chatSession[i].usedMinutes < chatSession[i].durationMinutes
       /\ chatSession[i].resumedAt = now
       /\ chatSession[i].lastActiveAt = now
       /\ chatSession[i].endTime =
            now + (chatSession[i].durationMinutes - chatSession[i].usedMinutes)

\* session.buyerId === userId || session.sellerId === userId
C34_Participant(i, u) ==
  chatSession[i].buyerId = u \/ chatSession[i].sellerId = u

\* C34: pauseSession goes on to its write only for the buyer or seller of
\* a running session, and cancelSession goes on only for a participant; a
\* call by another user, or a pause of a paused session, throws and leaves
\* every row as it is.
C34_GuardsHold ==
  [][\A p \in Procs, i \in SessionIds, u \in Users :
       /\ PauseRead(p, i, u) =>
            /\ Persisted' = Persisted
            /\ IF C34_Participant(i, u) /\ ~chatSession[i].isPaused
                 THEN call'[p].pc = "pause_update"
                 ELSE /\ call'[p].pc = "idle"
                      /\ returned'.op = "pauseSession"
                      /\ returned'.outcome \in {"Forbidden", "AlreadyPaused"}
       /\ CancelBegin(p, i, u) =>
            /\ Persisted' = Persisted
            /\ IF C34_Participant(i, u)
                 THEN \/ call'[p].pc = "cancel_tx"
                      \/ returned' = [op |-> "cancelSession", outcome |-> "NotActive"]
                 ELSE /\ call'[p].pc = "idle"
                      /\ returned' = [op |-> "cancelSession", outcome |-> "Forbidden"]]_vars

\* a user who is neither buyer nor seller has tried to cancel a running
\* session, which is still running and not cancelled
C34_Witness ==
  /\ returned = [op |-> "cancelSession", outcome |-> "Forbidden"]
  /\ \E i \in SessionIds :
       /\ ~chatSession[i].isPaused
       /\ chatSession[i].isActive
       /\ ~chatSession[i].isCancelled

\* C35: every user's pending balance is the sum of the amounts of the
\* user's holds with status LOCKED, the totalLocked of getPendingBalance.
C35_PendingIsTotalLocked ==
  \A u \in Users : userBalance[u].pendingBalance = TotalLocked(u)

\* a user has one hold still locked and another that has been paid out,
\* and a pending balance that counts the first only
C35_Witness ==
  \E h1 \in Holds, h2 \in Holds :
    /\ pendingBalance[h1].userId = pendingBalance[h2].userId
    /\ pendingBalance[h1].status = "LOCKED"
    /\ pendingBalance[h2].status # "LOCKED"
    /\ userBalance[pendingBalance[h1].userId].pendingBalance
         = pendingBalance[h1].amount

\* the hold status that goes with a request status
C36_HoldStatusOf(status) ==
  CASE status = "PENDING" -> "LOCKED"
    [] status = "ACCEPTED" -> "RELEASED"
    [] status \in {"REJECTED", "CANCELLED"} -> "REFUNDED"
    [] status = "EXPIRED" -> "EXPIRED"

\* C36: a request is PENDING exactly when its hold is LOCKED, and the hold
\* of a request that has left PENDING has the status of that outcome.
C36_HoldMatchesRequest ==
  \A h \in Holds :
    pendingBalance[h].status =
      C36_HoldStatusOf(serviceRequest[pendingBalance[h].sourceId].status)

\* the service_sessions rows of request r
C37_SessionsOf(r) == {ss \in serviceSession : ss.requestId = r}

\* C37: a request has a ServiceSession exactly when its status is
\* ACCEPTED, and never more than one.
C37_SessionIffAccepted ==
  \A r \in RequestIds :
    /\ Cardinality(C37_SessionsOf(r)) <= 1
    /\ (C37_SessionsOf(r) # {}) <=> (serviceRequest[r].status = "ACCEPTED")

\* the sum of available + pending over a set of users
RECURSIVE C38_Sum(_, _)
C38_Sum(ub, us) ==
  IF us = {} THEN 0
  ELSE LET u == CHOOSE x \in us : TRUE
       IN ub[u].availableBalance + ub[u].pendingBalance + C38_Sum(ub, us \ {u})

\* C38: no step of purchase, session cancel, content charge, createRequest,
\* accept, reject, cancelRequest or expire changes the sum over all users
\* of available + pending.
C38_MoneyConserved ==
  [][C38_Sum(userBalance', Users) = C38_Sum(userBalance, Users)]_vars

\* money has moved through a session (purchase or cancel), through a
\* request leaving PENDING, and the balances differ from the initial ones
C38_Witness ==
  /\ \E i \in SessionIds : chatSession[i].isCancelled
  /\ \E r \in RequestIds : serviceRequest[r].status = "ACCEPTED"
  /\ userBalance["u1"].availableBalance = 4
  /\ userBalance["u2"].availableBalance = 4
  /\ userBalance["u1"].pendingBalance = 0

\* the payment_callbacks rows inserted in this step
C39_Inserted ==
  {n \in 1..Len(paymentCallback') : n > Len(paymentCallback)}

\* the amount credited to user u by the rows inserted in this step
C39_Credit(u) ==
  IF \E n \in C39_Inserted :
        /\ payment[paymentCallback'[n].paymentId].userId = u
        /\ paymentCallback'[n].resultCode = 0
    THEN LET n == CHOOSE n \in C39_Inserted : TRUE
         IN GatewayCallbacks[paymentCallback'[n].paymentId].amount
    ELSE 0

\* a delivery of the callback of payment k has been processed in this step
C39_Processed(p) ==
  /\ call[p].pc = "callback_tx"
  /\ call'[p].pc = "idle"

\* C39: a step inserts at most one callback row, and only for a payment
\* that has none; a user's available balance changes only with the
\* insertion of a row of ResultCode 0 for a payment of the user, by its
\* amount; and when a delivery has been processed the payment has its row.
\* So, however often and however concurrently a callback is delivered, a
\* confirmed deposit is credited once and a failed one never.
C39_DepositCreditedOnce ==
  [][/\ Cardinality(C39_Inserted) <= 1
     /\ \A n \in C39_Inserted, m \in 1..Len(paymentCallback) :
          paymentCallback[m].paymentId # paymentCallback'[n].paymentId
     /\ \A u \in Users :
          userBalance'[u].availableBalance
            = userBalance[u].availableBalance + C39_Credit(u)
     /\ \A p \in Procs :
          C39_Processed(p) =>
            \E n \in 1..Len(paymentCallback') :
               paymentCallback'[n].paymentId = call[p].paymentId]_vars

\* the callback of the confirmed payment k1 of 2 has been delivered again,
\* the later delivery was refused, and u1 has been credited once
C39_Witness ==
  /\ returned = [op |-> "processCallback", outcome |-> "ErrorLogged"]
  /\ calls = 3
  /\ \A p \in Procs : IsIdle(p)
  /\ Len(paymentCallback) = 1
  /\ paymentCallback[1].paymentId = "k1"
  /\ payment["k1"].status = "COMPLETED"
  /\ userBalance["u1"].availableBalance = 8 + 2

\* C40: once a session is cancelled no step changes its row (it does not
\* run again, its usedMinutes stay) and no step pays a refund for it.
C40_CancelledIsAbsorbing ==
  [][\A i \in SessionIds :
       chatSession[i].isCancelled =>
         /\ chatSession'[i] = chatSession[i]
         /\ audit'.sessionRefunds[i] = audit.sessionRefunds[i]]_vars

====
